---- MODULE Spec2Model ----
(***************************************************************************)
(* A model of the stream integration engine of de_datastreaming            *)
(* (src/mtqq_dashboard.py): the MQTT callback that feeds the two queues,   *)
(* the engine thread that drains them and joins facility readings with     *)
(* market readings, and the dashboard callbacks that copy the store.       *)
(***************************************************************************)
EXTENDS Integers, Sequences, FiniteSets, TLC

(***************************************************************************)
(* Bounds of the model and constants of the program                        *)
(***************************************************************************)

\* number of on_message invocations in one behaviour
MaxPush == 3

TIME_BUCKET_MINUTES == 5

FACILITY_TOPIC == "COMP5339/T07G04/facilities"

MARKET_TOPIC == "COMP5339/T07G04/market"

OtherTopic == "COMP5339/T07G04/other"

\* the dashboard callbacks that run concurrently with the engine
Readers == {"update_map"}

(***************************************************************************)
(* Python values                                                           *)
(***************************************************************************)

\* None, and a value that is present
None == <<>>

Some(v) == <<v>>

\* a dict as a function on the set of its keys
EmptyDict == [k \in {} |-> k]

Put(d, k, v) == [x \in (DOMAIN d) \cup {k} |-> IF x = k THEN v ELSE d[x]]

\* a JSON value that json.loads turns into a list: not hashable as a dict key
ListValue == "<list>"

Hashable(v) == v # ListValue

(***************************************************************************)
(* Timestamps.  A timestamp string is the record of its ISO fields with    *)
(* the format it is written in; a Timestamp (pandas) is the record of the  *)
(* fields alone.                                                           *)
(***************************************************************************)

IsoString(d, h, mi, s) == [fmt |-> "iso", d |-> d, h |-> h, mi |-> mi, s |-> s]

\* a string no parser accepts
BadString == [fmt |-> "bad", d |-> 0, h |-> 0, mi |-> 0, s |-> 0]

\* pd.to_datetime(x): the Timestamp, or an exception
to_datetime(x) ==
  IF x.fmt \in {"iso", "loose"}
    THEN [ok |-> TRUE, val |-> [d |-> x.d, h |-> x.h, mi |-> x.mi, s |-> x.s]]
    ELSE [ok |-> FALSE, val |-> [d |-> 0, h |-> 0, mi |-> 0, s |-> 0]]

\* Timestamp.isoformat()
isoformat(t) == [fmt |-> "iso", d |-> t.d, h |-> t.h, mi |-> t.mi, s |-> t.s]

\* the instant of a Timestamp in seconds, and back
ToSeconds(t) == ((t.d * 24 + t.h) * 60 + t.mi) * 60 + t.s

FromSeconds(n) ==
  [d |-> n \div 86400, h |-> (n % 86400) \div 3600,
   mi |-> (n % 3600) \div 60, s |-> n % 60]

\* Timestamp - timedelta(minutes=m)
MinusMinutes(t, m) == FromSeconds(ToSeconds(t) - m * 60)

\* a variant of RoundToBucket that rounds the minute to the nearest
\* multiple of the width instead of the one below
RoundToBucketNearest(W, timestamp_str) ==
  LET p == to_datetime(timestamp_str)
      ts == p.val
      minutes == ((ts.mi + W \div 2) \div W) * W
      bucket == FromSeconds(ToSeconds([ts EXCEPT !.mi = 0, !.s = 0]) + minutes * 60)
  IN  IF p.ok THEN [ok |-> TRUE, val |-> isoformat(bucket)]
              ELSE [ok |-> FALSE, val |-> timestamp_str]

\* lines 158-161 when TIME_BUCKET_MINUTES is set to W: the bucket key, or an
\* exception
RoundToBucket(W, timestamp_str) ==
  LET p == to_datetime(timestamp_str)
      ts == p.val
      minutes == (ts.mi \div W) * W
      bucket == [ts EXCEPT !.mi = minutes, !.s = 0]
  IN  IF p.ok THEN [ok |-> TRUE, val |-> isoformat(bucket)]
              ELSE [ok |-> FALSE, val |-> timestamp_str]

\* round_to_bucket(timestamp_str)
round_to_bucket(timestamp_str) ==
  RoundToBucket(TIME_BUCKET_MINUTES, timestamp_str)

\* lines 207-208 when TIME_BUCKET_MINUTES is set to W: the key one interval
\* before a bucket key
PrevBucket(W, bucket) == isoformat(MinusMinutes(to_datetime(bucket).val, W))

(***************************************************************************)
(* Fuel labels.  A Python str is the record of the sequence of its         *)
(* characters; Tab stands for a whitespace character other than the space. *)
(***************************************************************************)

Str(chars) == [chars |-> chars]

Tab == "<tab>"

Whitespace == {" ", Tab}

UpperCase == << "A", "B", "C", "D", "E", "F", "G", "H", "I", "J", "K", "L", "M", "N", "O", "P", "Q", "R", "S", "T", "U", "V", "W", "X", "Y", "Z" >>

LowerCase == << "a", "b", "c", "d", "e", "f", "g", "h", "i", "j", "k", "l", "m", "n", "o", "p", "q", "r", "s", "t", "u", "v", "w", "x", "y", "z" >>

\* the pairs (key, canonical name) of FUEL_CANONICALS
FuelPairs ==
  {
    << << "b", "a", "t", "t", "e", "r", "y" >>,
       << "B", "a", "t", "t", "e", "r", "y" >> >>,
    << << "b", "i", "o", "e", "n", "e", "r", "g", "y" >>,
       << "B", "i", "o", "e", "n", "e", "r", "g", "y" >> >>,
    << << "b", "a", "g", "a", "s", "s", "e" >>,
       << "B", "a", "g", "a", "s", "s", "e" >> >>,
    << << "b", "r", "o", "w", "n", "c", "o", "a", "l" >>,
       << "B", "r", "o", "w", "n", " ", "C", "o", "a", "l" >> >>,
    << << "b", "l", "a", "c", "k", "c", "o", "a", "l" >>,
       << "B", "l", "a", "c", "k", " ", "C", "o", "a", "l" >> >>,
    << << "c", "o", "a", "l" >>,
       << "C", "o", "a", "l" >> >>,
    << << "d", "i", "e", "s", "e", "l" >>,
       << "D", "i", "e", "s", "e", "l" >> >>,
    << << "d", "i", "s", "t", "i", "l", "l", "a", "t", "e" >>,
       << "D", "i", "e", "s", "e", "l" >> >>,
    << << "g", "a", "s" >>,
       << "G", "a", "s" >> >>,
    << << "w", "a", "s", "t", "e", "c", "o", "a", "l", "m", "i", "n", "e", "g", "a", "s" >>,
       << "W", "a", "s", "t", "e", " ", "C", "o", "a", "l", " ", "M", "i", "n", "e", " ", "G", "a", "s" >> >>,
    << << "l", "a", "n", "d", "f", "i", "l", "l", "g", "a", "s" >>,
       << "L", "a", "n", "d", "f", "i", "l", "l", " ", "G", "a", "s" >> >>,
    << << "h", "y", "d", "r", "o" >>,
       << "H", "y", "d", "r", "o" >> >>,
    << << "w", "i", "n", "d" >>,
       << "W", "i", "n", "d" >> >>,
    << << "s", "o", "l", "a", "r" >>,
       << "S", "o", "l", "a", "r" >> >>,
    << << "w", "o", "o", "d" >>,
       << "W", "o", "o", "d" >> >>
  }

FUEL_CANONICALS == [k \in { p[1] : p \in FuelPairs } |->
                      (CHOOSE p \in FuelPairs : p[1] = k)[2]]

\* str.strip(): the whitespace at both ends is removed
RECURSIVE strip(_)
strip(cs) ==
  IF cs = << >> THEN cs
  ELSE IF Head(cs) \in Whitespace THEN strip(Tail(cs))
  ELSE IF cs[Len(cs)] \in Whitespace THEN strip(SubSeq(cs, 1, Len(cs) - 1))
  ELSE cs

\* str.lower()
lower(cs) ==
  [i \in 1 .. Len(cs) |->
     IF \E j \in 1 .. Len(UpperCase) : UpperCase[j] = cs[i]
       THEN LowerCase[CHOOSE j \in 1 .. Len(UpperCase) : UpperCase[j] = cs[i]]
       ELSE cs[i]]

\* str.replace(" ", ""): the spaces are removed, other whitespace is kept
RECURSIVE replace_spaces(_)
replace_spaces(cs) ==
  IF cs = << >> THEN cs
  ELSE IF Head(cs) = " " THEN replace_spaces(Tail(cs))
  ELSE << Head(cs) >> \o replace_spaces(Tail(cs))

\* lines 52-57
normalize_fuel(val) ==
  IF val = None THEN Str(<< "O", "t", "h", "e", "r" >>)
  ELSE LET s == strip(val.chars)
           key == replace_spaces(lower(s))
       IN  IF key \in DOMAIN FUEL_CANONICALS
             THEN Str(FUEL_CANONICALS[key])
             ELSE Str(s)

(***************************************************************************)
(* Messages.  A payload is what json.loads returned: an object with the    *)
(* keys in has, or something that is no object.                            *)
(***************************************************************************)

MarketKeys == {"region", "price", "demand_energy", "timestamp"}

FacilityKeys == {"facility_code", "power", "emissions", "timestamp"}

Payload(has, code, region, ts, a, b) ==
  [obj |-> TRUE, has |-> has, facility_code |-> code, region |-> region,
   timestamp |-> ts, price |-> a, demand_energy |-> b, power |-> a,
   emissions |-> b]

MarketPayload(region, ts, price, demand) ==
  Payload(MarketKeys, "", region, ts, price, demand)

FacilityPayload(code, ts, power, emissions) ==
  Payload(FacilityKeys, code, "", ts, power, emissions)

Without(p, key) == [p EXCEPT !.has = @ \ {key}]

\* a JSON array, string or number: indexing it by a key raises TypeError
NonObject == [Payload({}, "", "", BadString, 0, 0) EXCEPT !.obj = FALSE]

\* msg[key] raises unless msg is an object that has the key
Raises(msg, key) == ~msg.obj \/ key \notin msg.has

T1052 == IsoString(0, 10, 52, 30)

T1056 == IsoString(0, 10, 56, 0)

T1057 == IsoString(0, 10, 57, 45)

T1058 == IsoString(0, 10, 58, 0)

T1102 == IsoString(0, 11, 2, 10)

GoodMarketPayloads ==
  { MarketPayload("NSW1", T1052, 50, 900),
    MarketPayload("NSW1", T1057, 55, 950),
    MarketPayload("NSW1", T1056, 60, 800),
    MarketPayload("QLD1", T1057, 70, 700) }

BadMarketPayloads ==
  { MarketPayload("NSW1", BadString, 55, 950),
    MarketPayload(ListValue, T1057, 55, 950) }

GoodFacilityPayloads ==
  { FacilityPayload("F1", T1058, 120, 80),
    FacilityPayload("F1", T1102, 130, 90),
    FacilityPayload("FX", T1058, 120, 80),
    FacilityPayload("F2", T1058, 40, 0) }

BadFacilityPayloads ==
  { Without(FacilityPayload("F1", T1058, 120, 80), "power"),
    NonObject }

\* what the broker hands to on_message: a topic and the bytes of a payload
Deliveries ==
  [topic : {MARKET_TOPIC}, decodable : {TRUE},
   payload : GoodMarketPayloads \cup BadMarketPayloads]
  \cup
  [topic : {FACILITY_TOPIC}, decodable : {TRUE},
   payload : GoodFacilityPayloads \cup BadFacilityPayloads]
  \cup
  [topic : {OtherTopic}, decodable : {TRUE}, payload : {NonObject}]
  \cup
  [topic : {MARKET_TOPIC}, decodable : {FALSE}, payload : {NonObject}]

\* the metadata get_data_from_db() returned at startup
LoadedMetadata ==
  [code \in {"F1", "F2"} |->
     IF code = "F1"
       THEN [facility_name |-> "Alpha", region |-> "NSW1", lat |-> -34,
             lng |-> 151,
             fuel_type |-> Str(<< "B", "l", "a", "c", "k", " ", "C", "o", "a", "l" >>)]
       ELSE [facility_name |-> "Beta", region |-> "QLD1", lat |-> -27,
             lng |-> 153,
             fuel_type |-> Str(<< "s", "o", "l", "a", "r" >>)]]

(***************************************************************************)
(* State                                                                   *)
(***************************************************************************)

VARIABLES
  facility_queue,       \* queue.Queue of payloads (with their history tags)
  market_queue,
  market_buckets,       \* bucket -> region -> reading
  facilities_data,      \* facility_code -> the record object stored
  heap,                 \* record object -> its fields
  facilities_metadata,
  pc,                   \* where the engine thread is
  msg,                  \* the engine's local msg
  rpc,                  \* where each dashboard callback is
  snap,                 \* each dashboard callback's local snap
  delivered,            \* history: number of on_message calls
  dequeues,             \* history: message id -> times it was dequeued
  outcome,              \* history: how the last loop body ended, and for which message
  lastReceived,         \* history: (bucket, region) -> last reading dequeued
  storedFrom,           \* history: facility_code -> id of the message its record is of
  active,               \* executions of integrate_data_sources in progress
  exited,               \* the process has exited
  probe,                \* a function on its own: inputs and results
  facility_processed,   \* integrate_data_sources' local counters
  market_processed,
  drained               \* history: how the loop bodies of this cycle ended

vars ==
  << facility_queue, market_queue, market_buckets, facilities_data, heap,
     facilities_metadata, pc, msg, rpc, snap, delivered, dequeues, outcome,
     lastReceived, storedFrom, active, exited, probe, facility_processed,
     market_processed, drained >>

NoMsg ==
  [id |-> 0, age |-> 0, late |-> FALSE, topic |-> "", payload |-> NonObject]

\* the ways a loop body ends
Endings == {"upserted", "market_error", "stored", "filtered", "error"}

\* no loop body has run in this cycle
NoneDrained == [e \in Endings |-> 0]

\* the most a counter of a cycle is followed to; the integers of lines
\* 167-168 are not bounded, and a cycle of MaxPush messages needs no more
MaxCount == MaxPush

\* n += 1 (lines 182 and 236), as far as MaxCount
Inc(n) == IF n < MaxCount THEN n + 1 ELSE n

\* the bucketizer is not being probed
NoProbe == [on |-> FALSE]

MarketPhase == {"market_loop", "market_body"}

FacilityPhase == {"facility_loop", "facility_body"}

Init ==
  /\ facility_queue = <<>>
  /\ market_queue = <<>>
  /\ market_buckets = EmptyDict
  /\ facilities_data = EmptyDict
  /\ heap = EmptyDict
  /\ facilities_metadata = LoadedMetadata
  /\ pc = "sleep"
  /\ msg = NoMsg
  /\ rpc = [r \in Readers |-> "idle"]
  /\ snap = [r \in Readers |-> EmptyDict]
  /\ delivered = 0
  /\ dequeues = EmptyDict
  /\ outcome = [id |-> 0, kind |-> "none"]
  /\ lastReceived = EmptyDict
  /\ storedFrom = EmptyDict
  /\ active = 0
  /\ exited = FALSE
  /\ facility_processed = 0
  /\ market_processed = 0
  /\ drained = NoneDrained
  /\ probe = NoProbe

(***************************************************************************)
(* on_message: the transport's callback                                    *)
(***************************************************************************)

Tagged(message) ==
  [id |-> delivered + 1, age |-> 0, late |-> pc \in FacilityPhase,
   topic |-> message.topic, payload |-> message.payload]

\* a variant of on_message without the test of the market topic: every
\* decodable payload goes to the facility queue
OnMessageOneQueue(message) ==
  /\ delivered < MaxPush
  /\ delivered' = delivered + 1
  /\ IF message.decodable
       THEN /\ facility_queue' = Append(facility_queue, Tagged(message))
            /\ dequeues' = Put(dequeues, delivered + 1, 0)
            /\ UNCHANGED market_queue
       ELSE UNCHANGED << facility_queue, market_queue, dequeues >>
  /\ UNCHANGED << market_buckets, facilities_data, heap, facilities_metadata,
                  pc, msg, rpc, snap, outcome, lastReceived,
                  probe, exited, active, storedFrom,
                  facility_processed, market_processed, drained >>

\* lines 130-140.  queue.Queue() has no maximum size (lines 23-24), so put
\* never blocks; an exception of json.loads or decode is caught at line 139
on_message(message) ==
  /\ delivered < MaxPush
  /\ delivered' = delivered + 1
  /\ IF message.decodable /\ message.topic = FACILITY_TOPIC
       THEN /\ facility_queue' = Append(facility_queue, Tagged(message))
            /\ dequeues' = Put(dequeues, delivered + 1, 0)
            /\ UNCHANGED market_queue
       ELSE IF message.decodable /\ message.topic = MARKET_TOPIC
         THEN /\ market_queue' = Append(market_queue, Tagged(message))
              /\ dequeues' = Put(dequeues, delivered + 1, 0)
              /\ UNCHANGED facility_queue
         ELSE UNCHANGED << facility_queue, market_queue, dequeues >>
  /\ UNCHANGED << market_buckets, facilities_data, heap, facilities_metadata,
                  pc, msg, rpc, snap, outcome, lastReceived,
                  probe, exited, active, storedFrom,
                  facility_processed, market_processed, drained >>

\* the network thread of line 155 calls on_message while the process runs
Deliver == ~exited /\ \E message \in Deliveries : on_message(message)

(***************************************************************************)
(* integrate_data_sources: the market drain                                *)
(***************************************************************************)

\* market_buckets[bucket]: a defaultdict creates the missing entry
DefaultGet(mb, bucket) ==
  IF bucket \in DOMAIN mb THEN mb ELSE Put(mb, bucket, EmptyDict)

\* a variant of MarketUpsert that keeps the entry with the later source
\* timestamp instead of the one received last
MarketUpsertByEventTime(mb, m) ==
  LET rb == round_to_bucket(m.timestamp)
      bucket == rb.val
      region == m.region
      reading == [price |-> m.price, demand_energy |-> m.demand_energy,
                  timestamp |-> m.timestamp]
      old == IF bucket \in DOMAIN mb /\ region \in DOMAIN mb[bucket]
               THEN mb[bucket][region] ELSE reading
      newer == ToSeconds(to_datetime(m.timestamp).val)
                 >= ToSeconds(to_datetime(old.timestamp).val)
  IN  IF Raises(m, "timestamp") \/ ~rb.ok
        THEN [ok |-> FALSE, mb |-> mb]
      ELSE IF Raises(m, "region") \/ Raises(m, "price")
              \/ Raises(m, "demand_energy")
        THEN [ok |-> FALSE, mb |-> mb]
      ELSE IF ~Hashable(region)
        THEN [ok |-> FALSE, mb |-> DefaultGet(mb, bucket)]
      ELSE [ok |-> TRUE,
            mb |-> Put(DefaultGet(mb, bucket), bucket,
                       Put(DefaultGet(mb, bucket)[bucket], region,
                           IF newer THEN reading ELSE old))]

\* a variant of MarketUpsert that keeps the entry already held for the
\* bucket and region: the first reading received wins
MarketUpsertKeepFirst(mb, m) ==
  LET rb == round_to_bucket(m.timestamp)
      bucket == rb.val
      region == m.region
      reading == [price |-> m.price, demand_energy |-> m.demand_energy,
                  timestamp |-> m.timestamp]
      held == bucket \in DOMAIN mb /\ region \in DOMAIN mb[bucket]
  IN  IF Raises(m, "timestamp") \/ ~rb.ok
        THEN [ok |-> FALSE, mb |-> mb]
      ELSE IF Raises(m, "region") \/ Raises(m, "price")
              \/ Raises(m, "demand_energy")
        THEN [ok |-> FALSE, mb |-> mb]
      ELSE IF ~Hashable(region)
        THEN [ok |-> FALSE, mb |-> DefaultGet(mb, bucket)]
      ELSE [ok |-> TRUE,
            mb |-> IF held THEN mb
                   ELSE Put(DefaultGet(mb, bucket), bucket,
                            Put(DefaultGet(mb, bucket)[bucket], region, reading))]

\* a variant of MarketUpsert with a retention policy: the buckets other
\* than the one upserted are evicted
MarketUpsertEvicting(mb, m) ==
  LET rb == round_to_bucket(m.timestamp)
      bucket == rb.val
      region == m.region
      reading == [price |-> m.price, demand_energy |-> m.demand_energy,
                  timestamp |-> m.timestamp]
      kept == [b \in (DOMAIN mb) \cap {bucket} |-> mb[b]]
  IN  IF Raises(m, "timestamp") \/ ~rb.ok
        THEN [ok |-> FALSE, mb |-> mb]
      ELSE IF Raises(m, "region") \/ Raises(m, "price")
              \/ Raises(m, "demand_energy")
        THEN [ok |-> FALSE, mb |-> mb]
      ELSE IF ~Hashable(region)
        THEN [ok |-> FALSE, mb |-> DefaultGet(mb, bucket)]
      ELSE [ok |-> TRUE,
            mb |-> Put(kept, bucket,
                       Put(DefaultGet(mb, bucket)[bucket], region, reading))]

\* a variant of MarketUpsert that adds the demand of a reading to the demand
\* the entry already holds
MarketUpsertAccumulating(mb, m) ==
  LET rb == round_to_bucket(m.timestamp)
      bucket == rb.val
      region == m.region
      held == IF bucket \in DOMAIN mb /\ region \in DOMAIN mb[bucket]
                THEN mb[bucket][region].demand_energy ELSE 0
      reading == [price |-> m.price, demand_energy |-> held + m.demand_energy,
                  timestamp |-> m.timestamp]
  IN  IF Raises(m, "timestamp") \/ ~rb.ok
        THEN [ok |-> FALSE, mb |-> mb]
      ELSE IF Raises(m, "region") \/ Raises(m, "price")
              \/ Raises(m, "demand_energy")
        THEN [ok |-> FALSE, mb |-> mb]
      ELSE IF ~Hashable(region)
        THEN [ok |-> FALSE, mb |-> DefaultGet(mb, bucket)]
      ELSE [ok |-> TRUE,
            mb |-> Put(DefaultGet(mb, bucket), bucket,
                       Put(DefaultGet(mb, bucket)[bucket], region, reading))]

\* lines 174-182: the body of the market loop on one message; ok is FALSE
\* when an exception reached the handler of line 185
MarketUpsert(mb, m) ==
  LET rb == round_to_bucket(m.timestamp)
      bucket == rb.val
      region == m.region
      reading == [price |-> m.price, demand_energy |-> m.demand_energy,
                  timestamp |-> m.timestamp]
  IN  IF Raises(m, "timestamp") \/ ~rb.ok
        THEN [ok |-> FALSE, mb |-> mb]
      ELSE IF Raises(m, "region") \/ Raises(m, "price")
              \/ Raises(m, "demand_energy")
        THEN [ok |-> FALSE, mb |-> mb]
      ELSE IF ~Hashable(region)
        THEN [ok |-> FALSE, mb |-> DefaultGet(mb, bucket)]
      ELSE [ok |-> TRUE,
            mb |-> Put(DefaultGet(mb, bucket), bucket,
                       Put(DefaultGet(mb, bucket)[bucket], region, reading))]

(***************************************************************************)
(* integrate_data_sources: the facility drain                              *)
(***************************************************************************)

\* d.get(bucket, {}).get(region, {})
Get2(mb, bucket, region) ==
  IF bucket \in DOMAIN mb /\ region \in DOMAIN mb[bucket]
    THEN mb[bucket][region]
    ELSE EmptyDict

\* d.get(key): the value, or None
GetOrNone(d, key) == IF key \in DOMAIN d THEN Some(d[key]) ELSE None

\* a variant of MarketLookup that goes back a second interval when the
\* first one back has no entry
MarketLookupTwoBack(mb, bucket, region) ==
  LET market_data == Get2(mb, bucket, region)
      prev_bucket ==
        isoformat(MinusMinutes(to_datetime(bucket).val, TIME_BUCKET_MINUTES))
      prev_prev ==
        isoformat(MinusMinutes(to_datetime(bucket).val, 2 * TIME_BUCKET_MINUTES))
  IN  IF DOMAIN market_data # {} THEN market_data
      ELSE IF DOMAIN Get2(mb, prev_bucket, region) # {}
        THEN Get2(mb, prev_bucket, region)
      ELSE Get2(mb, prev_prev, region)

\* a variant of MarketLookup that, when the region has no entry at the
\* bucket nor one back, takes the entry of another region at the bucket
MarketLookupAnyRegion(mb, bucket, region) ==
  LET market_data == Get2(mb, bucket, region)
      prev_bucket == PrevBucket(TIME_BUCKET_MINUTES, bucket)
  IN  IF DOMAIN market_data # {} THEN market_data
      ELSE IF DOMAIN Get2(mb, prev_bucket, region) # {}
        THEN Get2(mb, prev_bucket, region)
      ELSE IF bucket \in DOMAIN mb /\ DOMAIN mb[bucket] # {}
        THEN mb[bucket][CHOOSE r \in DOMAIN mb[bucket] : TRUE]
      ELSE EmptyDict

\* lines 204-209: the market data joined to a reading of this bucket and region
MarketLookup(mb, bucket, region) ==
  LET market_data == Get2(mb, bucket, region)
      prev_bucket == PrevBucket(TIME_BUCKET_MINUTES, bucket)
  IN  IF DOMAIN market_data = {}
        THEN Get2(mb, prev_bucket, region)
        ELSE market_data

\* a variant of IntegratedRecord whose flag tells whether the index has
\* any entry rather than whether the lookup found one
IntegratedRecordFlagged(m, facility_code, metadata, bucket, market_data) ==
  [facility_code |-> facility_code,
   power |-> m.power,
   emissions |-> m.emissions,
   timestamp |-> m.timestamp,
   time_bucket |-> bucket,
   facility_name |-> metadata.facility_name,
   network_region |-> metadata.region,
   lat |-> metadata.lat,
   lng |-> metadata.lng,
   fuel_type |-> metadata.fuel_type,
   price |-> GetOrNone(market_data, "price"),
   demand_energy |-> GetOrNone(market_data, "demand_energy"),
   market_timestamp |-> GetOrNone(market_data, "timestamp"),
   has_market_data |-> DOMAIN market_buckets # {}]

\* a variant of IntegratedRecord that keeps the reading's own timestamp as
\* its time_bucket
IntegratedRecordUnbucketed(m, facility_code, metadata, bucket, market_data) ==
  [facility_code |-> facility_code,
   power |-> m.power,
   emissions |-> m.emissions,
   timestamp |-> m.timestamp,
   time_bucket |-> m.timestamp,
   facility_name |-> metadata.facility_name,
   network_region |-> metadata.region,
   lat |-> metadata.lat,
   lng |-> metadata.lng,
   fuel_type |-> metadata.fuel_type,
   price |-> GetOrNone(market_data, "price"),
   demand_energy |-> GetOrNone(market_data, "demand_energy"),
   market_timestamp |-> GetOrNone(market_data, "timestamp"),
   has_market_data |-> DOMAIN market_data # {}]

\* lines 211-233
IntegratedRecord(m, facility_code, metadata, bucket, market_data) ==
  [facility_code |-> facility_code,
   power |-> m.power,
   emissions |-> m.emissions,
   timestamp |-> m.timestamp,
   time_bucket |-> bucket,
   facility_name |-> metadata.facility_name,
   network_region |-> metadata.region,
   lat |-> metadata.lat,
   lng |-> metadata.lng,
   fuel_type |-> metadata.fuel_type,
   price |-> GetOrNone(market_data, "price"),
   demand_energy |-> GetOrNone(market_data, "demand_energy"),
   market_timestamp |-> GetOrNone(market_data, "timestamp"),
   has_market_data |-> DOMAIN market_data # {}]

\* a variant of Integrate without the membership test of line 195: the
\* subscript of line 198 raises KeyError for an unknown facility_code
IntegrateUnfiltered(m, meta, mb) ==
  LET facility_code == m.facility_code
      rb == round_to_bucket(m.timestamp)
      none == [kind |-> "error", code |-> "", rec |-> EmptyDict, mb |-> mb]
  IN  IF Raises(m, "facility_code") \/ ~Hashable(facility_code)
        THEN none
      ELSE IF facility_code \notin DOMAIN meta
        THEN none
      ELSE IF Raises(m, "timestamp") \/ ~rb.ok
        THEN none
      ELSE IF Raises(m, "power") \/ Raises(m, "emissions")
        THEN none
      ELSE [kind |-> "stored", code |-> facility_code, mb |-> mb,
            rec |-> IntegratedRecord(m, facility_code, meta[facility_code],
                      rb.val,
                      MarketLookup(mb, rb.val, meta[facility_code].region))]

\* a variant of Integrate whose lookup subscripts market_buckets[bucket]
\* instead of calling get: the defaultdict then creates the missing bucket
IntegrateSubscripting(m, meta, mb) ==
  LET facility_code == m.facility_code
      rb == round_to_bucket(m.timestamp)
      none == [kind |-> "error", code |-> "", rec |-> EmptyDict, mb |-> mb]
  IN  IF Raises(m, "facility_code") \/ ~Hashable(facility_code)
        THEN none
      ELSE IF facility_code \notin DOMAIN meta
        THEN [none EXCEPT !.kind = "filtered"]
      ELSE IF Raises(m, "timestamp") \/ ~rb.ok
        THEN none
      ELSE IF Raises(m, "power") \/ Raises(m, "emissions")
        THEN [none EXCEPT !.mb = DefaultGet(mb, rb.val)]
      ELSE [kind |-> "stored", code |-> facility_code,
            mb |-> DefaultGet(mb, rb.val),
            rec |-> IntegratedRecord(m, facility_code, meta[facility_code],
                      rb.val,
                      MarketLookup(mb, rb.val, meta[facility_code].region))]

\* a variant of Integrate whose one-back lookup subscripts
\* market_buckets[prev_bucket]: when the region has no entry at the bucket,
\* the defaultdict creates the missing one-back bucket
IntegrateSubscriptingOneBack(m, meta, mb) ==
  LET facility_code == m.facility_code
      rb == round_to_bucket(m.timestamp)
      none == [kind |-> "error", code |-> "", rec |-> EmptyDict, mb |-> mb]
      looked ==
        IF DOMAIN Get2(mb, rb.val, meta[facility_code].region) = {}
          THEN DefaultGet(mb, PrevBucket(TIME_BUCKET_MINUTES, rb.val))
          ELSE mb
  IN  IF Raises(m, "facility_code") \/ ~Hashable(facility_code)
        THEN none
      ELSE IF facility_code \notin DOMAIN meta
        THEN [none EXCEPT !.kind = "filtered"]
      ELSE IF Raises(m, "timestamp") \/ ~rb.ok
        THEN none
      ELSE IF Raises(m, "power") \/ Raises(m, "emissions")
        THEN [none EXCEPT !.mb = looked]
      ELSE [kind |-> "stored", code |-> facility_code, mb |-> looked,
            rec |-> IntegratedRecord(m, facility_code, meta[facility_code],
                      rb.val,
                      MarketLookup(mb, rb.val, meta[facility_code].region))]

\* lines 192-233: the body of the facility loop on one message up to the
\* store: "error" when an exception reached the handler of line 240,
\* "filtered" at the continue of line 196, else the record to store; mb is
\* market_buckets as the body leaves it (the lookups use get, which adds
\* nothing to a defaultdict)
Integrate(m, meta, mb) ==
  LET facility_code == m.facility_code
      rb == round_to_bucket(m.timestamp)
      none == [kind |-> "error", code |-> "", rec |-> EmptyDict, mb |-> mb]
  IN  IF Raises(m, "facility_code") \/ ~Hashable(facility_code)
        THEN none
      ELSE IF facility_code \notin DOMAIN meta
        THEN [none EXCEPT !.kind = "filtered"]
      ELSE IF Raises(m, "timestamp") \/ ~rb.ok
        THEN none
      ELSE IF Raises(m, "power") \/ Raises(m, "emissions")
        THEN none
      ELSE [kind |-> "stored", code |-> facility_code, mb |-> mb,
            rec |-> IntegratedRecord(m, facility_code, meta[facility_code],
                      rb.val,
                      MarketLookup(mb, rb.val, meta[facility_code].region))]

(***************************************************************************)
(* The heap of record objects                                              *)
(***************************************************************************)

ObjIds == 1 .. (Cardinality(DOMAIN LoadedMetadata) * (Cardinality(Readers) + 1) + 1)

\* the objects some dict still refers to
Live(fd, sn) ==
  {fd[k] : k \in DOMAIN fd} \cup
  UNION {{sn[r][k] : k \in DOMAIN sn[r]} : r \in Readers}

Collect(h, fd, sn) == [o \in (DOMAIN h) \cap Live(fd, sn) |-> h[o]]

NewObject(h) == CHOOSE o \in ObjIds \ DOMAIN h : \A q \in ObjIds \ DOMAIN h : o <= q

\* a variant of StoreRecord that refills the dict already stored for the
\* facility instead of storing the new one
StoreRecordInPlace(h, fd, facility_code, rec) ==
  IF facility_code \in DOMAIN fd
    THEN [heap |-> Put(h, fd[facility_code], rec), fd |-> fd]
    ELSE [heap |-> Put(h, NewObject(h), rec),
          fd |-> Put(fd, facility_code, NewObject(h))]

\* a variant of StoreRecord that updates the dict already stored for the
\* facility with the fields of the new record that are not None
StoreRecordMerged(h, fd, facility_code, rec) ==
  IF facility_code \in DOMAIN fd
    THEN [heap |-> Put(h, fd[facility_code],
                       [f \in DOMAIN rec |->
                          IF f \in {"price", "demand_energy", "market_timestamp"}
                               /\ rec[f] = None
                            THEN h[fd[facility_code]][f]
                            ELSE rec[f]]),
          fd |-> fd]
    ELSE [heap |-> Put(h, NewObject(h), rec),
          fd |-> Put(fd, facility_code, NewObject(h))]

\* a variant of StoreRecord that keeps the record already stored for the
\* facility when its source timestamp is later than the new record's
StoreRecordByEventTime(h, fd, facility_code, rec) ==
  IF /\ facility_code \in DOMAIN fd
     /\ ToSeconds(to_datetime(h[fd[facility_code]].timestamp).val)
          > ToSeconds(to_datetime(rec.timestamp).val)
    THEN [heap |-> h, fd |-> fd]
    ELSE [heap |-> Put(h, NewObject(h), rec),
          fd |-> Put(fd, facility_code, NewObject(h))]

\* line 235: facilities_data[facility_code] = integrated_record, where
\* integrated_record is a dict built by this iteration
StoreRecord(h, fd, facility_code, rec) ==
  LET o == NewObject(h)
  IN  [heap |-> Put(h, o, rec), fd |-> Put(fd, facility_code, o)]

(***************************************************************************)
(* History: what the engine has received, told from the messages alone     *)
(***************************************************************************)

\* the start, in seconds, of the fixed-width interval an instant lies in
IntervalStart(seconds) == seconds - (seconds % (TIME_BUCKET_MINUTES * 60))

\* a market message that carries every field of a market reading
IsMarketReading(p) ==
  /\ p.obj
  /\ MarketKeys \subseteq p.has
  /\ p.timestamp.fmt # "bad"
  /\ Hashable(p.region)

\* a facility message that carries every field of a facility reading
IsFacilityReading(p) ==
  /\ p.obj
  /\ FacilityKeys \subseteq p.has
  /\ p.timestamp.fmt # "bad"
  /\ Hashable(p.facility_code)

InstantOf(timestamp_str) ==
  ((timestamp_str.d * 24 + timestamp_str.h) * 60 + timestamp_str.mi) * 60
    + timestamp_str.s

Received(last, p) ==
  IF IsMarketReading(p)
    THEN Put(last, << IntervalStart(InstantOf(p.timestamp)), p.region >>,
             [price |-> p.price, demand_energy |-> p.demand_energy,
              timestamp |-> p.timestamp])
    ELSE last

ReadingOf(p) ==
  [facility_code |-> p.facility_code, power |-> p.power,
   emissions |-> p.emissions, timestamp |-> p.timestamp]

(***************************************************************************)
(* The engine thread: process_queues_continuously and the steps of         *)
(* integrate_data_sources                                                  *)
(***************************************************************************)

Older(q) == [i \in 1 .. Len(q) |-> [q[i] EXCEPT !.age = @ + 1]]

\* a variant of StartCycle driven by a timer that fires whether or not
\* the call before it has returned
StartCycleOnTimer ==
  /\ ~exited
  /\ pc' = "market_loop"
  /\ active' = active + 1
  /\ market_queue' = Older(market_queue)
  /\ facility_queue' = Older(facility_queue)
  /\ facility_processed' = 0
  /\ market_processed' = 0
  /\ drained' = NoneDrained
  /\ UNCHANGED << market_buckets, facilities_data, heap, facilities_metadata,
                  msg, rpc, snap, delivered, dequeues, outcome, lastReceived,
                  probe, exited, storedFrom >>

\* line 253: the loop calls integrate_data_sources
StartCycle ==
  /\ ~exited
  /\ pc \in {"sleep", "backoff"}
  /\ pc' = "market_loop"
  /\ active' = active + 1
  /\ market_queue' = Older(market_queue)
  /\ facility_queue' = Older(facility_queue)
  /\ facility_processed' = 0
  /\ market_processed' = 0
  /\ drained' = NoneDrained
  /\ UNCHANGED << market_buckets, facilities_data, heap, facilities_metadata,
                  msg, rpc, snap, delivered, dequeues, outcome, lastReceived,
                  probe, exited, storedFrom >>

\* a variant of MarketTake that reads the head of the queue and leaves it
\* there
MarketTakeKept ==
  /\ ~exited
  /\ pc = "market_loop"
  /\ IF market_queue = <<>>
       THEN /\ pc' = "facility_loop"
            /\ UNCHANGED << market_queue, msg, dequeues, lastReceived >>
       ELSE /\ pc' = "market_body"
            /\ msg' = Head(market_queue)
            /\ market_queue' = market_queue
            /\ dequeues' = [dequeues EXCEPT ![Head(market_queue).id] = @ + 1]
            /\ lastReceived' = Received(lastReceived, Head(market_queue).payload)
  /\ UNCHANGED << facility_queue, market_buckets, facilities_data, heap,
                  facilities_metadata, rpc, snap, delivered, outcome,
                  probe, exited, active, storedFrom,
                  facility_processed, market_processed, drained >>

\* a variant of MarketTake that leaves the market loop as soon as a
\* facility message waits: the facility messages are drained first
MarketTakeYielding ==
  /\ ~exited
  /\ pc = "market_loop"
  /\ IF market_queue = <<>> \/ facility_queue # <<>>
       THEN /\ pc' = "facility_loop"
            /\ UNCHANGED << market_queue, msg, dequeues, lastReceived >>
       ELSE /\ pc' = "market_body"
            /\ msg' = Head(market_queue)
            /\ market_queue' = Tail(market_queue)
            /\ dequeues' = [dequeues EXCEPT ![Head(market_queue).id] = @ + 1]
            /\ lastReceived' = Received(lastReceived, Head(market_queue).payload)
  /\ UNCHANGED << facility_queue, market_buckets, facilities_data, heap,
                  facilities_metadata, rpc, snap, delivered, outcome,
                  probe, exited, active, storedFrom,
                  facility_processed, market_processed, drained >>

\* lines 171-173: while not market_queue.empty(): msg =
\* market_queue.get_nowait().  The engine is the only consumer, so a queue
\* found non-empty still is when get_nowait runs, and the queue.Empty
\* handler of line 183 is never entered.
MarketTake ==
  /\ ~exited
  /\ pc = "market_loop"
  /\ IF market_queue = <<>>
       THEN /\ pc' = "facility_loop"
            /\ UNCHANGED << market_queue, msg, dequeues, lastReceived >>
       ELSE /\ pc' = "market_body"
            /\ msg' = Head(market_queue)
            /\ market_queue' = Tail(market_queue)
            /\ dequeues' = [dequeues EXCEPT ![Head(market_queue).id] = @ + 1]
            /\ lastReceived' = Received(lastReceived, Head(market_queue).payload)
  /\ UNCHANGED << facility_queue, market_buckets, facilities_data, heap,
                  facilities_metadata, rpc, snap, delivered, outcome,
                  probe, exited, active, storedFrom,
                  facility_processed, market_processed, drained >>

\* a variant of MarketBody with an if in place of the while of line 171:
\* one market message a cycle
MarketBodyOnce ==
  /\ ~exited
  /\ pc = "market_body"
  /\ LET r == MarketUpsert(market_buckets, msg.payload)
     IN  /\ market_buckets' = r.mb
         /\ outcome' = [id |-> msg.id, kind |-> IF r.ok THEN "upserted" ELSE "error"]
         /\ market_processed' = IF r.ok THEN Inc(market_processed)
                                      ELSE market_processed
         /\ drained' = [drained EXCEPT
                          ![IF r.ok THEN "upserted" ELSE "market_error"] = Inc(@)]
  /\ msg' = NoMsg
  /\ pc' = "facility_loop"
  /\ UNCHANGED << facility_queue, market_queue, facilities_data, heap,
                  facilities_metadata, rpc, snap, delivered, dequeues,
                  lastReceived,
                  probe, exited, active, storedFrom,
                  facility_processed >>

\* a variant of MarketBody that, after the upsert, gives the new reading to
\* the stored records of its bucket and region
MarketBodyRejoining ==
  /\ ~exited
  /\ pc = "market_body"
  /\ LET r == MarketUpsert(market_buckets, msg.payload)
         hit(o) == /\ r.ok
                   /\ \E k \in DOMAIN facilities_data : facilities_data[k] = o
                   /\ heap[o].network_region = msg.payload.region
                   /\ heap[o].time_bucket = round_to_bucket(msg.payload.timestamp).val
     IN  /\ market_buckets' = r.mb
         /\ outcome' = [id |-> msg.id, kind |-> IF r.ok THEN "upserted" ELSE "error"]
         /\ market_processed' = IF r.ok THEN Inc(market_processed)
                                      ELSE market_processed
         /\ drained' = [drained EXCEPT
                          ![IF r.ok THEN "upserted" ELSE "market_error"] = Inc(@)]
         /\ heap' = [o \in DOMAIN heap |->
                       IF hit(o)
                         THEN [heap[o] EXCEPT
                                 !.price = Some(msg.payload.price),
                                 !.demand_energy = Some(msg.payload.demand_energy),
                                 !.market_timestamp = Some(msg.payload.timestamp),
                                 !.has_market_data = TRUE]
                         ELSE heap[o]]
  /\ msg' = NoMsg
  /\ pc' = "market_loop"
  /\ UNCHANGED << facility_queue, market_queue, facilities_data,
                  facilities_metadata, rpc, snap, delivered, dequeues,
                  lastReceived, probe, exited, active, storedFrom,
                  facility_processed >>

\* lines 174-186: the upsert of msg, or the handler of its exception
MarketBody ==
  /\ ~exited
  /\ pc = "market_body"
  /\ LET r == MarketUpsert(market_buckets, msg.payload)
     IN  /\ market_buckets' = r.mb
         /\ outcome' = [id |-> msg.id, kind |-> IF r.ok THEN "upserted" ELSE "error"]
         /\ market_processed' = IF r.ok THEN Inc(market_processed)
                                      ELSE market_processed
         /\ drained' = [drained EXCEPT
                          ![IF r.ok THEN "upserted" ELSE "market_error"] = Inc(@)]
  /\ msg' = NoMsg
  /\ pc' = "market_loop"
  /\ UNCHANGED << facility_queue, market_queue, facilities_data, heap,
                  facilities_metadata, rpc, snap, delivered, dequeues,
                  lastReceived,
                  probe, exited, active, storedFrom,
                  facility_processed >>

\* lines 189-191: while not facility_queue.empty(): msg =
\* facility_queue.get_nowait(); when the queue is empty, lines 244-247
\* return and line 254 sleeps
FacilityTake ==
  /\ ~exited
  /\ pc = "facility_loop"
  /\ IF facility_queue = <<>>
       THEN /\ pc' = "sleep"
            /\ active' = active - 1
            /\ UNCHANGED << facility_queue, msg, dequeues >>
            /\ facility_processed' = 0
            /\ market_processed' = 0
            /\ drained' = NoneDrained
       ELSE /\ pc' = "facility_body"
            /\ msg' = Head(facility_queue)
            /\ facility_queue' = Tail(facility_queue)
            /\ dequeues' = [dequeues EXCEPT ![Head(facility_queue).id] = @ + 1]
            /\ UNCHANGED << active, facility_processed, market_processed,
                            drained >>
  /\ UNCHANGED << market_queue, market_buckets, facilities_data, heap,
                  facilities_metadata, rpc, snap, delivered, outcome,
                  lastReceived,
                  probe, exited, storedFrom >>

\* a variant of FacilityBody that counts every facility message dequeued,
\* stored or not
FacilityBodyCountingAll ==
  /\ ~exited
  /\ pc = "facility_body"
  /\ \E r \in {Integrate(msg.payload, facilities_metadata, market_buckets)} :
     \E st \in {StoreRecord(heap, facilities_data, r.code, r.rec)} :
         /\ outcome' = [id |-> msg.id, kind |-> r.kind]
         /\ facility_processed' = Inc(facility_processed)
         /\ drained' = [drained EXCEPT ![r.kind] = Inc(@)]
         /\ market_buckets' = r.mb
         /\ IF r.kind = "stored"
              THEN /\ facilities_data' = st.fd
                   /\ heap' = Collect(st.heap, st.fd, snap)
                   /\ storedFrom' = Put(storedFrom, r.code, msg.id)
              ELSE UNCHANGED << facilities_data, heap, storedFrom >>
  /\ msg' = NoMsg
  /\ pc' = "facility_loop"
  /\ UNCHANGED << facility_queue, market_queue, facilities_metadata, rpc,
                  snap, delivered, dequeues, lastReceived,
                  probe, exited, active,
                  market_processed >>

\* lines 192-241: the join and the store of msg, the continue of line 196,
\* or the handler of its exception
FacilityBody ==
  /\ ~exited
  /\ pc = "facility_body"
  /\ \E r \in {Integrate(msg.payload, facilities_metadata, market_buckets)} :
     \E st \in {StoreRecord(heap, facilities_data, r.code, r.rec)} :
         /\ outcome' = [id |-> msg.id, kind |-> r.kind]
         /\ facility_processed' = IF r.kind = "stored"
                                        THEN Inc(facility_processed)
                                        ELSE facility_processed
         /\ drained' = [drained EXCEPT ![r.kind] = Inc(@)]
         /\ market_buckets' = r.mb
         /\ IF r.kind = "stored"
              THEN /\ facilities_data' = st.fd
                   /\ heap' = Collect(st.heap, st.fd, snap)
                   /\ storedFrom' = Put(storedFrom, r.code, msg.id)
              ELSE UNCHANGED << facilities_data, heap, storedFrom >>
  /\ msg' = NoMsg
  /\ pc' = "facility_loop"
  /\ UNCHANGED << facility_queue, market_queue, facilities_metadata, rpc,
                  snap, delivered, dequeues, lastReceived,
                  probe, exited, active,
                  market_processed >>

\* a variant of CycleRaises without the handler of lines 255-257: the
\* exception leaves process_queues_continuously and the thread ends
CycleRaisesFatal ==
  /\ ~exited
  /\ pc = "facility_loop"
  /\ facility_queue = <<>>
  /\ pc' = "dead"
  /\ active' = active - 1
  /\ facility_processed' = 0
  /\ market_processed' = 0
  /\ drained' = NoneDrained
  /\ UNCHANGED << facility_queue, market_queue, market_buckets,
                  facilities_data, heap, facilities_metadata, msg, rpc, snap,
                  delivered, dequeues, outcome, lastReceived, storedFrom,
                  exited, probe >>

\* lines 244-245 and 255-257: an exception raised after the loops, where
\* the summary is printed outside every try of integrate_data_sources,
\* leaves the function; the handler of process_queues_continuously prints
\* it and sleeps five seconds.  The summary is printed only when a message
\* was processed in the cycle; the model lets the raise follow any cycle.
CycleRaises ==
  /\ ~exited
  /\ pc = "facility_loop"
  /\ facility_queue = <<>>
  /\ pc' = "backoff"
  /\ active' = active - 1
  /\ facility_processed' = 0
  /\ market_processed' = 0
  /\ drained' = NoneDrained
  /\ UNCHANGED << facility_queue, market_queue, market_buckets,
                  facilities_data, heap, facilities_metadata, msg, rpc, snap,
                  delivered, dequeues, outcome, lastReceived, storedFrom,
                  exited, probe >>

\* line 555: app.run returns, or the main thread is interrupted, and the
\* interpreter exits; the engine thread is a daemon thread (line 552), so
\* it is stopped wherever it is, and so are the callbacks
Exit ==
  /\ ~exited
  /\ exited' = TRUE
  /\ UNCHANGED << facility_queue, market_queue, market_buckets,
                  facilities_data, heap, facilities_metadata, pc, msg, rpc, snap,
                  delivered, dequeues, outcome, lastReceived, storedFrom,
                  active, probe,
                  facility_processed, market_processed, drained >>

(***************************************************************************)
(* The dashboard callbacks refresh_filters and update_map                  *)
(***************************************************************************)

\* snap = dict(facilities_data): a new dict with the same keys and objects
CopyOf(fd) == [k \in DOMAIN fd |-> fd[k]]

\* a variant of TakeSnapshot that empties the store it copied
TakeSnapshotClearing(r) ==
  /\ ~exited
  /\ rpc[r] = "idle"
  /\ rpc' = [rpc EXCEPT ![r] = "iterating"]
  /\ snap' = [snap EXCEPT ![r] = CopyOf(facilities_data)]
  /\ facilities_data' = EmptyDict
  /\ heap' = Collect(heap, EmptyDict, snap')
  /\ UNCHANGED << facility_queue, market_queue, market_buckets,
                  facilities_metadata, pc, msg,
                  delivered, dequeues, outcome, lastReceived,
                  probe, exited, active, storedFrom,
                  facility_processed, market_processed, drained >>

\* lines 380 and 413
TakeSnapshot(r) ==
  /\ ~exited
  /\ rpc[r] = "idle"
  /\ rpc' = [rpc EXCEPT ![r] = "iterating"]
  /\ snap' = [snap EXCEPT ![r] = CopyOf(facilities_data)]
  /\ UNCHANGED << facility_queue, market_queue, market_buckets,
                  facilities_data, heap, facilities_metadata, pc, msg,
                  delivered, dequeues, outcome, lastReceived,
                  probe, exited, active, storedFrom,
                  facility_processed, market_processed, drained >>

\* the callback returns: its snap is dropped
Return(r) ==
  /\ ~exited
  /\ rpc[r] = "iterating"
  /\ rpc' = [rpc EXCEPT ![r] = "idle"]
  /\ snap' = [snap EXCEPT ![r] = EmptyDict]
  /\ heap' = Collect(heap, facilities_data, snap')
  /\ UNCHANGED << facility_queue, market_queue, market_buckets,
                  facilities_data, facilities_metadata, pc, msg, delivered,
                  dequeues, outcome, lastReceived,
                  probe, exited, active, storedFrom,
                  facility_processed, market_processed, drained >>

\* what the callback reads while it iterates snap.values()
View(r) == [k \in DOMAIN snap[r] |-> heap[snap[r][k]]]

\* the store as its readers see it
Store == [k \in DOMAIN facilities_data |-> heap[facilities_data[k]]]

(***************************************************************************)
(* The bucketizer on its own: round_to_bucket and the one-back key of the  *)
(* lookup applied to two timestamps, for each width TIME_BUCKET_MINUTES    *)
(* may be set to                                                           *)
(***************************************************************************)

\* the last day of the range of timestamps probed (days 0 .. MaxDay)
MaxDay == 1

Widths == {5, 7, 15, 90}

ProbeHours == {0, 1, 23}

ProbeMinutes == {0, 4, 5, 7, 53, 56, 59}

ProbeSeconds == {0, 59}

ProbeTimes ==
  { IsoString(d, h, mi, s) :
      d \in 0 .. MaxDay, h \in ProbeHours, mi \in ProbeMinutes,
      s \in ProbeSeconds }

BucketInit ==
  /\ facility_queue = <<>>
  /\ market_queue = <<>>
  /\ market_buckets = EmptyDict
  /\ facilities_data = EmptyDict
  /\ heap = EmptyDict
  /\ facilities_metadata = LoadedMetadata
  /\ pc = "sleep"
  /\ msg = NoMsg
  /\ rpc = [r \in Readers |-> "idle"]
  /\ snap = [r \in Readers |-> EmptyDict]
  /\ delivered = 0
  /\ dequeues = EmptyDict
  /\ outcome = [id |-> 0, kind |-> "none"]
  /\ lastReceived = EmptyDict
  /\ storedFrom = EmptyDict
  /\ active = 0
  /\ exited = FALSE
  /\ facility_processed = 0
  /\ market_processed = 0
  /\ drained = NoneDrained
  /\ probe \in [on : {TRUE}, done : {FALSE}, W : Widths, t1 : ProbeTimes,
                 t2 : ProbeTimes]

\* lines 157-161 and 206-208 on the probe's inputs
Bucketize ==
  /\ probe.on
  /\ ~probe.done
  /\ LET b1 == RoundToBucket(probe.W, probe.t1).val
         b2 == RoundToBucket(probe.W, probe.t2).val
         prev == PrevBucket(probe.W, b1)
     IN  probe' = [on |-> TRUE, done |-> TRUE, W |-> probe.W,
                   t1 |-> probe.t1, t2 |-> probe.t2,
                   b1 |-> b1, b2 |-> b2,
                   again |-> RoundToBucket(probe.W, b1).val,
                   prev |-> prev,
                   prev_again |-> RoundToBucket(probe.W, prev).val,
                   before |-> RoundToBucket(probe.W,
                                isoformat(FromSeconds(
                                  ToSeconds(to_datetime(b1).val) - 1))).val]
  /\ UNCHANGED << facility_queue, market_queue, market_buckets,
                  facilities_data, heap, facilities_metadata, pc, msg, rpc,
                  snap, delivered, dequeues, outcome, lastReceived,
                  storedFrom, active, exited,
                  facility_processed, market_processed, drained >>

BucketNext == Bucketize

BucketSpec == BucketInit /\ [][BucketNext]_vars

(***************************************************************************)
(* normalize_fuel on its own, applied to None and to labels: every string  *)
(* of at most MaxLabelLen characters of FuelAlphabet, and the labels of    *)
(* NamedLabels                                                             *)
(***************************************************************************)

\* the longest label made of the characters of FuelAlphabet
MaxLabelLen == 4

FuelAlphabet == {"G", "g", "a", "s", "x", " ", Tab}

NamedLabels ==
  { << "B", "l", "a", "c", "k", " ", "C", "o", "a", "l" >>,
    << " ", "b", "l", "a", "c", "k", " ", " ", "C", "O", "A", "L", " " >>,
    << "s", "o", "l", "a", "r" >>,
    << "S", "o", "l", "a", "r" >>,
    << "N", "u", "c", "l", "e", "a", "r" >>,
    << "W", "a", "s", "t", "e", " ", "C", "o", "a", "l", " ", "M", "i", "n", "e", " ", "G", "a", "s" >>,
    << "d", "i", "s", "t", "i", "l", "l", "a", "t", "e" >>,
    << "O", "t", "h", "e", "r" >> }

FuelLabels ==
  { Str(cs) :
      cs \in UNION { [1 .. n -> FuelAlphabet] : n \in 0 .. MaxLabelLen }
                \cup NamedLabels }

FuelInit ==
  /\ facility_queue = <<>>
  /\ market_queue = <<>>
  /\ market_buckets = EmptyDict
  /\ facilities_data = EmptyDict
  /\ heap = EmptyDict
  /\ facilities_metadata = LoadedMetadata
  /\ pc = "sleep"
  /\ msg = NoMsg
  /\ rpc = [r \in Readers |-> "idle"]
  /\ snap = [r \in Readers |-> EmptyDict]
  /\ delivered = 0
  /\ dequeues = EmptyDict
  /\ outcome = [id |-> 0, kind |-> "none"]
  /\ lastReceived = EmptyDict
  /\ storedFrom = EmptyDict
  /\ active = 0
  /\ exited = FALSE
  /\ facility_processed = 0
  /\ market_processed = 0
  /\ drained = NoneDrained
  /\ probe \in [on : {TRUE}, done : {FALSE},
                 val : FuelLabels \cup {None}]

\* lines 52-57 on the probe's input
NormalizeFuel ==
  /\ probe.on
  /\ ~probe.done
  /\ probe' = [on |-> TRUE, done |-> TRUE, val |-> probe.val,
               out |-> normalize_fuel(probe.val)]
  /\ UNCHANGED << facility_queue, market_queue, market_buckets,
                  facilities_data, heap, facilities_metadata, pc, msg, rpc,
                  snap, delivered, dequeues, outcome, lastReceived,
                  storedFrom, active, exited,
                  facility_processed, market_processed, drained >>

FuelNext == NormalizeFuel

FuelSpec == FuelInit /\ [][FuelNext]_vars

Next ==
  \/ Deliver
  \/ StartCycle
  \/ MarketTake
  \/ MarketBody
  \/ FacilityTake
  \/ FacilityBody
  \/ CycleRaises
  \/ Exit
  \/ \E r \in Readers : TakeSnapshot(r)
  \/ \E r \in Readers : Return(r)

Spec == Init /\ [][Next]_vars

\* the steps of the engine thread
EngineNext ==
  \/ StartCycle
  \/ MarketTake
  \/ MarketBody
  \/ FacilityTake
  \/ FacilityBody
  \/ CycleRaises

\* the deliveries of the specification below: a well-formed message and
\* the malformed ones of each topic
LiveDeliveries ==
  { d \in Deliveries :
      d.payload \in BadMarketPayloads \cup BadFacilityPayloads
                     \cup { MarketPayload("NSW1", T1057, 55, 950),
                            FacilityPayload("F1", T1058, 120, 80),
                            FacilityPayload("FX", T1058, 120, 80) } }

DeliverLive == ~exited /\ \E message \in LiveDeliveries : on_message(message)

\* the process keeps running, no callback is active
LiveNext == DeliverLive \/ EngineNext

\* the engine thread is scheduled again and again, and its sleeps end
LiveSpec == Init /\ [][LiveNext]_vars /\ WF_vars(EngineNext)

(***************************************************************************)
(* The listener of each dashboard variant on its own: start_mqtt_once and  *)
(* on_connect.  The variants are the integrating dashboard (lines 115-155  *)
(* of mtqq_dashboard.py), the dashboard copied into the same file (lines   *)
(* 568-686) and mtqq_dashboard_dash.py.                                    *)
(***************************************************************************)

\* the most calls of start_mqtt_once
MaxCalls == 3

\* the most CONNACKs the listener receives
MaxConnects == 4

Variants == {"integrating", "copy", "dash"}

\* the CONNACK reason codes: success and some refusals
ReasonCodes == {0, 1, 4, 5, 135}

\* the topic names each variant's module defines
TopicsDefined(variant) ==
  IF variant = "dash" THEN {"TOPIC"} ELSE {"FACILITY_TOPIC", "MARKET_TOPIC"}

\* the topic names the variant's on_connect passes to client.subscribe
TopicsSubscribed(variant) ==
  IF variant = "integrating" THEN {"FACILITY_TOPIC", "MARKET_TOPIC"}
  ELSE {"TOPIC"}

MqttInit ==
  /\ facility_queue = <<>>
  /\ market_queue = <<>>
  /\ market_buckets = EmptyDict
  /\ facilities_data = EmptyDict
  /\ heap = EmptyDict
  /\ facilities_metadata = LoadedMetadata
  /\ pc = "sleep"
  /\ msg = NoMsg
  /\ rpc = [r \in Readers |-> "idle"]
  /\ snap = [r \in Readers |-> EmptyDict]
  /\ delivered = 0
  /\ dequeues = EmptyDict
  /\ outcome = [id |-> 0, kind |-> "none"]
  /\ lastReceived = EmptyDict
  /\ storedFrom = EmptyDict
  /\ active = 0
  /\ exited = FALSE
  /\ facility_processed = 0
  /\ market_processed = 0
  /\ drained = NoneDrained
  /\ \E variant \in Variants :
       probe = [on |-> TRUE, variant |-> variant, started |-> FALSE,
                \* mtqq_dashboard_dash.py starts its thread at import
                \* (lines 58-59) and has no start_mqtt_once
                threads |-> IF variant = "dash" THEN 1 ELSE 0,
                calls |-> 0, connects |-> 0, mqtt_connected |-> FALSE,
                reason_code |-> 0, subscribed |-> {}, raised |-> FALSE]

\* a variant of StartMqttOnce without the assignment of line 154
StartMqttUnflagged ==
  /\ probe.variant # "dash"
  /\ probe.calls < MaxCalls
  /\ probe' = IF probe.started
                THEN [probe EXCEPT !.calls = @ + 1]
                ELSE [probe EXCEPT !.calls = @ + 1, !.threads = @ + 1]
  /\ UNCHANGED << facility_queue, market_queue, market_buckets,
                  facilities_data, heap, facilities_metadata, pc, msg, rpc,
                  snap, delivered, dequeues, outcome, lastReceived,
                  storedFrom, active, exited,
                  facility_processed, market_processed, drained >>

\* lines 150-155 (681-686 in the copy), called from the main thread
StartMqttOnce ==
  /\ probe.variant # "dash"
  /\ probe.calls < MaxCalls
  /\ probe' = IF probe.started
                THEN [probe EXCEPT !.calls = @ + 1]
                ELSE [probe EXCEPT !.calls = @ + 1, !.started = TRUE,
                                   !.threads = @ + 1]
  /\ UNCHANGED << facility_queue, market_queue, market_buckets,
                  facilities_data, heap, facilities_metadata, pc, msg, rpc,
                  snap, delivered, dequeues, outcome, lastReceived,
                  storedFrom, active, exited,
                  facility_processed, market_processed, drained >>

\* on_connect: lines 115-128, lines 637-645 of the copy, lines 18-26 of
\* mtqq_dashboard_dash.py.  subscribed is what this call subscribed to; a
\* name the module does not define raises NameError at the subscribe
OnConnect(reason_code) ==
  /\ probe.threads > 0
  /\ probe.connects < MaxConnects
  /\ LET names == TopicsSubscribed(probe.variant)
         defined == names \subseteq TopicsDefined(probe.variant)
     IN  probe' = [probe EXCEPT
                     !.connects = @ + 1,
                     !.reason_code = reason_code,
                     !.mqtt_connected = (reason_code = 0),
                     !.subscribed = IF reason_code = 0 /\ defined
                                      THEN names ELSE {},
                     !.raised = (reason_code = 0 /\ ~defined)]
  /\ UNCHANGED << facility_queue, market_queue, market_buckets,
                  facilities_data, heap, facilities_metadata, pc, msg, rpc,
                  snap, delivered, dequeues, outcome, lastReceived,
                  storedFrom, active, exited,
                  facility_processed, market_processed, drained >>

Connack == \E reason_code \in ReasonCodes : OnConnect(reason_code)

MqttNext == StartMqttOnce \/ Connack

MqttSpec == MqttInit /\ [][MqttNext]_vars

(***************************************************************************)
(* The Streamlit dashboard of mtqq_subscriber_dashboard2.py on its own:    *)
(* the callbacks that put into message_queue, and process_queue.  The      *)
(* callbacks put only while process_queue is not running.                  *)
(***************************************************************************)

\* the most messages waiting in message_queue
MaxQueued == 3

\* the most calls of process_queue
MaxRuns == 2

\* the payloads on_message receives, as json.loads returns them: a dict of
\* the keys the payload has, or a value that is not a dict
StPayloads ==
  { [facility_code |-> "F1", power |-> 10],
    [facility_code |-> "F1", power |-> 20],
    [power |-> 10],
    [facility_code |-> ListValue, power |-> 10] }

\* the keys on_message reads with payload.get
DataKeys ==
  {"facility_code", "facility_name", "lat", "lng", "power", "emissions",
   "timestamp"}

\* lines 79-91: the message on_message puts for a dict payload
FacilityDataMessage(payload) ==
  [type |-> "facility_data",
   facility_code |-> GetOrNone(payload, "facility_code"),
   data |-> [k \in DataKeys |-> GetOrNone(payload, k)]]

ConnectionMessage(connected) == [type |-> "connection", connected |-> connected]

ErrorMessage(message) == [type |-> "error", message |-> message]

\* the str(e) of the exceptions of client.connect and loop_forever
ErrorTexts == {"Connection refused", "timed out"}

StInit ==
  /\ facility_queue = <<>>
  /\ market_queue = <<>>
  /\ market_buckets = EmptyDict
  /\ facilities_data = EmptyDict
  /\ heap = EmptyDict
  /\ facilities_metadata = LoadedMetadata
  /\ pc = "sleep"
  /\ msg = NoMsg
  /\ rpc = [r \in Readers |-> "idle"]
  /\ snap = [r \in Readers |-> EmptyDict]
  /\ delivered = 0
  /\ dequeues = EmptyDict
  /\ outcome = [id |-> 0, kind |-> "none"]
  /\ lastReceived = EmptyDict
  /\ storedFrom = EmptyDict
  /\ active = 0
  /\ exited = FALSE
  /\ facility_processed = 0
  /\ market_processed = 0
  /\ drained = NoneDrained
  /\ probe = [on |-> TRUE, at |-> "idle", runs |-> 0,
              message_queue |-> <<>>,
              records |-> EmptyDict, mqtt_connected |-> FALSE,
              mqtt_error |-> None, processed |-> 0,
              \* history: the queue and the session state at the call
              pending |-> <<>>, records0 |-> EmptyDict,
              mqtt_connected0 |-> FALSE, mqtt_error0 |-> None]

\* message_queue.put(m) by a callback of the listener thread
QueuePut(ms) ==
  /\ probe.at \in {"idle", "returned"}
  /\ Len(probe.message_queue) + Len(ms) <= MaxQueued
  /\ probe' = [probe EXCEPT !.at = "idle",
                            !.message_queue = @ \o ms]
  /\ UNCHANGED << facility_queue, market_queue, market_buckets,
                  facilities_data, heap, facilities_metadata, pc, msg, rpc,
                  snap, delivered, dequeues, outcome, lastReceived,
                  storedFrom, active, exited,
                  facility_processed, market_processed, drained >>

\* lines 56-65 of mtqq_subscriber_dashboard2.py
StOnConnect ==
  \E reason_code \in ReasonCodes :
    QueuePut(<< ConnectionMessage(reason_code = 0) >>)

\* lines 67-94: a payload that is not a dict has no get, and the handler of
\* line 93 puts nothing
StOnMessage ==
  \/ \E payload \in StPayloads : QueuePut(<< FacilityDataMessage(payload) >>)
  \/ QueuePut(<< >>)

\* lines 103-105: connect or loop_forever raised
StThreadFails ==
  \E e \in ErrorTexts :
    QueuePut(<< ErrorMessage(e), ConnectionMessage(FALSE) >>)

\* lines 125-127: process_queue is called
ProcessQueueCall ==
  /\ probe.at \in {"idle", "returned"}
  /\ probe.runs < MaxRuns
  /\ probe' = [probe EXCEPT !.at = "loop", !.runs = @ + 1, !.processed = 0,
                            !.pending = probe.message_queue,
                            !.records0 = probe.records,
                            !.mqtt_connected0 = probe.mqtt_connected,
                            !.mqtt_error0 = probe.mqtt_error]
  /\ UNCHANGED << facility_queue, market_queue, market_buckets,
                  facilities_data, heap, facilities_metadata, pc, msg, rpc,
                  snap, delivered, dequeues, outcome, lastReceived,
                  storedFrom, active, exited,
                  facility_processed, market_processed, drained >>

\* a variant of ProcessQueueStep whose exception handler leaves the loop
ProcessQueueStepStopping ==
  /\ probe.at = "loop"
  /\ probe.message_queue # <<>>
  /\ LET m == Head(probe.message_queue)
         rest == [probe EXCEPT !.message_queue = Tail(@)]
     IN  probe' =
           IF m.type = "connection"
             THEN [rest EXCEPT !.mqtt_connected = m.connected]
           ELSE IF m.type = "facility_data"
             THEN IF m.facility_code # None /\ ~Hashable(m.facility_code[1])
                    THEN [rest EXCEPT !.at = "returned"]
                    ELSE [rest EXCEPT
                            !.records = Put(@, m.facility_code, m.data),
                            !.processed = @ + 1]
           ELSE [rest EXCEPT !.mqtt_error = Some(m.message)]
  /\ UNCHANGED << facility_queue, market_queue, market_buckets,
                  facilities_data, heap, facilities_metadata, pc, msg, rpc,
                  snap, delivered, dequeues, outcome, lastReceived,
                  storedFrom, active, exited,
                  facility_processed, market_processed, drained >>

\* lines 129-143: one turn of the loop.  The key of records is
\* msg["facility_code"], None when the payload had none; a key that is not
\* hashable raises TypeError at line 135, which line 142 handles
ProcessQueueStep ==
  /\ probe.at = "loop"
  /\ probe.message_queue # <<>>
  /\ LET m == Head(probe.message_queue)
         rest == [probe EXCEPT !.message_queue = Tail(@)]
     IN  probe' =
           IF m.type = "connection"
             THEN [rest EXCEPT !.mqtt_connected = m.connected]
           ELSE IF m.type = "facility_data"
             THEN IF m.facility_code # None /\ ~Hashable(m.facility_code[1])
                    THEN rest
                    ELSE [rest EXCEPT
                            !.records = Put(@, m.facility_code, m.data),
                            !.processed = @ + 1]
           ELSE [rest EXCEPT !.mqtt_error = Some(m.message)]
  /\ UNCHANGED << facility_queue, market_queue, market_buckets,
                  facilities_data, heap, facilities_metadata, pc, msg, rpc,
                  snap, delivered, dequeues, outcome, lastReceived,
                  storedFrom, active, exited,
                  facility_processed, market_processed, drained >>

\* lines 129 and 145: the queue is empty and process_queue returns processed
ProcessQueueReturn ==
  /\ probe.at = "loop"
  /\ probe.message_queue = <<>>
  /\ probe' = [probe EXCEPT !.at = "returned"]
  /\ UNCHANGED << facility_queue, market_queue, market_buckets,
                  facilities_data, heap, facilities_metadata, pc, msg, rpc,
                  snap, delivered, dequeues, outcome, lastReceived,
                  storedFrom, active, exited,
                  facility_processed, market_processed, drained >>

StNext ==
  \/ StOnConnect
  \/ StOnMessage
  \/ StThreadFails
  \/ ProcessQueueCall
  \/ ProcessQueueStep
  \/ ProcessQueueReturn

StSpec == StInit /\ [][StNext]_vars

(***************************************************************************)
(* update_map's regional price and demand on their own: parse_ts and the   *)
(* loop of lines 416-428 over the values of a snapshot, in the order of    *)
(* the dict.  A timestamp string is ISO without an offset, ISO with an     *)
(* offset, or a string datetime.fromisoformat rejects.                     *)
(***************************************************************************)

\* the most records in the snapshot
MaxSnap == 3

\* a timestamp string that datetime.fromisoformat rejects
NotIso == [iso |-> FALSE, aware |-> FALSE, at |-> 0]

\* the timestamp strings of the records: at is the instant, in minutes
StampTexts ==
  { [iso |-> TRUE, aware |-> FALSE, at |-> 1],
    [iso |-> TRUE, aware |-> FALSE, at |-> 2],
    [iso |-> TRUE, aware |-> TRUE, at |-> 1],
    NotIso }

\* datetime.min, which has no tzinfo
DatetimeMin == [aware |-> FALSE, at |-> 0]

\* lines 107-112: the datetime of the string, aware when the string has an
\* offset, or datetime.min
parse_ts(ts) ==
  IF ts.iso THEN [aware |-> ts.aware, at |-> ts.at] ELSE DatetimeMin

\* x or 0.0
OrZero(x) == IF x = None THEN 0 ELSE x[1]

\* the records the snapshot is made of
MapRecords ==
  { [network_region |-> reg, timestamp |-> ts, price |-> pd[1],
     demand_energy |-> pd[2]] :
      reg \in {Some("NSW1"), Some("QLD1"), None},
      ts \in StampTexts,
      pd \in { << None, Some(900) >>, << Some(50), None >>,
               << Some(70), Some(900) >> } }

\* update_map raised: the callback did not complete
MapRaised == [raised |-> TRUE]

\* lines 417-428 for one record r, latest being latest_by_region.  The
\* operator > between a datetime with tzinfo and one without raises
\* TypeError, which nothing in update_map handles
LatestStep(latest, r) ==
  LET reg == r.network_region
      ts == parse_ts(r.timestamp)
      entry == [price |-> OrZero(r.price), demand |-> OrZero(r.demand_energy),
                ts |-> ts]
  IN  IF latest = MapRaised THEN MapRaised
      ELSE IF reg = None THEN latest
      ELSE IF reg[1] \notin DOMAIN latest THEN Put(latest, reg[1], entry)
      ELSE IF ts.aware # latest[reg[1]].ts.aware THEN MapRaised
      ELSE IF ts.at > latest[reg[1]].ts.at THEN Put(latest, reg[1], entry)
      ELSE latest

\* lines 415-428: the loop over snap.values()
RECURSIVE LatestByRegion(_, _)
LatestByRegion(latest, rs) ==
  IF rs = <<>> THEN latest
  ELSE LatestByRegion(LatestStep(latest, Head(rs)), Tail(rs))

MapInit ==
  /\ facility_queue = <<>>
  /\ market_queue = <<>>
  /\ market_buckets = EmptyDict
  /\ facilities_data = EmptyDict
  /\ heap = EmptyDict
  /\ facilities_metadata = LoadedMetadata
  /\ pc = "sleep"
  /\ msg = NoMsg
  /\ rpc = [r \in Readers |-> "idle"]
  /\ snap = [r \in Readers |-> EmptyDict]
  /\ delivered = 0
  /\ dequeues = EmptyDict
  /\ outcome = [id |-> 0, kind |-> "none"]
  /\ lastReceived = EmptyDict
  /\ storedFrom = EmptyDict
  /\ active = 0
  /\ exited = FALSE
  /\ facility_processed = 0
  /\ market_processed = 0
  /\ drained = NoneDrained
  /\ \E n \in 0 .. MaxSnap : \E values \in [1 .. n -> MapRecords] :
       probe = [on |-> TRUE, done |-> FALSE, values |-> values]

\* lines 413-428 on the probe's snapshot
UpdateMap ==
  /\ probe.on
  /\ ~probe.done
  /\ probe' = [on |-> TRUE, done |-> TRUE, values |-> probe.values,
               latest_by_region |-> LatestByRegion(EmptyDict, probe.values)]
  /\ UNCHANGED << facility_queue, market_queue, market_buckets,
                  facilities_data, heap, facilities_metadata, pc, msg, rpc,
                  snap, delivered, dequeues, outcome, lastReceived,
                  storedFrom, active, exited,
                  facility_processed, market_processed, drained >>

MapNext == UpdateMap

MapSpec == MapInit /\ [][MapNext]_vars

(***************************************************************************)
(* The publisher of mtqq_publisher.py on its own: publish_data_stream over *)
(* a data frame whose rows are pairs of a date and a time of day.  The log *)
(* keeps what it published and where it paused for 60 seconds.             *)
(***************************************************************************)

\* the most passes of the while True loop over the days
MaxPasses == 2

\* the rows a data frame is made of: << date, time of day >>
FrameRows == {1, 2, 3} \X {1, 2}

\* sorted(S) for a set of integers
RECURSIVE Sorted(_)
Sorted(S) ==
  IF S = {} THEN <<>>
  ELSE LET least == CHOOSE x \in S : \A y \in S : x <= y
       IN  << least >> \o Sorted(S \ {least})

\* line 49 (and line 34): sorted(df['timestamp'].dt.date.unique())
unique_dates(df) == Sorted({ row[1] : row \in df })

\* lines 33-42: the rows of the day at index day_number, by timestamp
load_day_data(df, day_number) ==
  IF day_number > Len(unique_dates(df)) THEN <<>>
  ELSE LET target_date == unique_dates(df)[day_number]
           times == Sorted({ row[2] : row \in { x \in df : x[1] = target_date } })
       IN  [i \in 1 .. Len(times) |-> << target_date, times[i] >>]

PublisherInit ==
  /\ facility_queue = <<>>
  /\ market_queue = <<>>
  /\ market_buckets = EmptyDict
  /\ facilities_data = EmptyDict
  /\ heap = EmptyDict
  /\ facilities_metadata = LoadedMetadata
  /\ pc = "sleep"
  /\ msg = NoMsg
  /\ rpc = [r \in Readers |-> "idle"]
  /\ snap = [r \in Readers |-> EmptyDict]
  /\ delivered = 0
  /\ dequeues = EmptyDict
  /\ outcome = [id |-> 0, kind |-> "none"]
  /\ lastReceived = EmptyDict
  /\ storedFrom = EmptyDict
  /\ active = 0
  /\ exited = FALSE
  /\ facility_processed = 0
  /\ market_processed = 0
  /\ drained = NoneDrained
  /\ \E df \in SUBSET FrameRows :
       \* day_number counts from 1 here; 0 is "not assigned yet"
       probe = [on |-> TRUE, df |-> df, at |-> "for", iteration |-> 1,
                next |-> 1, day_number |-> 0, row |-> 0, log |-> <<>>]

\* line 57: for day_number in range(num_days), and line 58
ForDay ==
  /\ probe.at = "for"
  /\ probe' = IF probe.next <= Len(unique_dates(probe.df))
                THEN [probe EXCEPT !.at = "rows", !.day_number = probe.next,
                                   !.next = @ + 1, !.row = 1]
                ELSE [probe EXCEPT !.at = "after"]
  /\ UNCHANGED << facility_queue, market_queue, market_buckets,
                  facilities_data, heap, facilities_metadata, pc, msg, rpc,
                  snap, delivered, dequeues, outcome, lastReceived,
                  storedFrom, active, exited,
                  facility_processed, market_processed, drained >>

\* lines 68-83: one row of the day is published, then the 0.1 s pause
PublishRow ==
  /\ probe.at = "rows"
  /\ LET day_data == load_day_data(probe.df, probe.day_number)
     IN  probe' = IF probe.row <= Len(day_data)
                    THEN [probe EXCEPT
                            !.row = @ + 1,
                            !.log = Append(@, [what |-> "row",
                                               pass |-> probe.iteration,
                                               row |-> day_data[probe.row]])]
                    ELSE [probe EXCEPT !.at = "for"]
  /\ UNCHANGED << facility_queue, market_queue, market_buckets,
                  facilities_data, heap, facilities_metadata, pc, msg, rpc,
                  snap, delivered, dequeues, outcome, lastReceived,
                  storedFrom, active, exited,
                  facility_processed, market_processed, drained >>

\* lines 85-89, which follow the for loop inside the while loop: the print
\* of current_date, which is not assigned when the frame has no row
\* (NameError), and the pause if day_number < num_days - 1, day_number
\* being the last value the for loop gave it; then line 54 again
AfterDays ==
  /\ probe.at = "after"
  /\ probe' =
       LET num_days == Len(unique_dates(probe.df))
           paused == [probe EXCEPT !.log = Append(@, [what |-> "sleep60",
                                           pass |-> probe.iteration,
                                           row |-> << 0, 0 >>])]
           now == IF probe.day_number - 1 < num_days - 1 THEN paused ELSE probe
       IN  IF probe.day_number = 0
             THEN [probe EXCEPT !.at = "raised"]
           ELSE IF probe.iteration < MaxPasses
             THEN [now EXCEPT !.at = "for", !.next = 1, !.iteration = @ + 1]
           ELSE [now EXCEPT !.at = "stopped"]
  /\ UNCHANGED << facility_queue, market_queue, market_buckets,
                  facilities_data, heap, facilities_metadata, pc, msg, rpc,
                  snap, delivered, dequeues, outcome, lastReceived,
                  storedFrom, active, exited,
                  facility_processed, market_processed, drained >>

PublisherNext == ForDay \/ PublishRow \/ AfterDays

PublisherSpec == PublisherInit /\ [][PublisherNext]_vars

(***************************************************************************)
(* A producer that never stops.  The number of messages waiting is capped  *)
(* at MaxPush, not the number of pushes: the id of a message that was      *)
(* consumed is given to a later one.                                       *)
(***************************************************************************)

\* the ids of the messages in a queue or in the engine's hands
InFlight ==
  { market_queue[i].id : i \in 1 .. Len(market_queue) } \cup
  { facility_queue[i].id : i \in 1 .. Len(facility_queue) } \cup
  { msg.id }

StreamDeliveries ==
  { d \in Deliveries :
      d.payload \in { MarketPayload("NSW1", T1057, 55, 950),
                      Without(MarketPayload("NSW1", T1057, 55, 950), "price"),
                      FacilityPayload("F1", T1058, 120, 80) } }

\* lines 130-140, as on_message, with an id that is free
OnMessageStream(message) ==
  /\ \E id \in 1 .. MaxPush :
       /\ id \notin InFlight
       /\ \A j \in 1 .. id - 1 : j \in InFlight
       /\ delivered' = id
       /\ LET tagged == [id |-> id, age |-> 0, late |-> pc \in FacilityPhase,
                         topic |-> message.topic, payload |-> message.payload]
          IN  IF message.decodable /\ message.topic = FACILITY_TOPIC
                THEN /\ facility_queue' = Append(facility_queue, tagged)
                     /\ dequeues' = Put(dequeues, id, 0)
                     /\ UNCHANGED market_queue
                ELSE IF message.decodable /\ message.topic = MARKET_TOPIC
                  THEN /\ market_queue' = Append(market_queue, tagged)
                       /\ dequeues' = Put(dequeues, id, 0)
                       /\ UNCHANGED facility_queue
                  ELSE UNCHANGED << facility_queue, market_queue, dequeues >>
  /\ UNCHANGED << market_buckets, facilities_data, heap, facilities_metadata,
                  pc, msg, rpc, snap, outcome, lastReceived,
                  probe, exited, active, storedFrom,
                  facility_processed, market_processed, drained >>

DeliverStream ==
  ~exited /\ \E message \in StreamDeliveries : OnMessageStream(message)

StreamNext == DeliverStream \/ EngineNext

\* the engine thread is scheduled again and again, and its sleeps end; the
\* producer pushes when it pleases
StreamSpec == Init /\ [][StreamNext]_vars /\ WF_vars(EngineNext)

(***************************************************************************)
(* A producer that pushes only while the engine sleeps, so that nothing is *)
(* pushed during a cycle.  The probe keeps what was pushed since the last  *)
(* cycle, each queue's messages in their order, and the index and the      *)
(* store as that cycle left them.                                          *)
(***************************************************************************)

\* the probe after a push of payload p to the market queue (to = "market"),
\* to the facility queue (to = "facility") or to neither (to = "none")
Batch(to, p) ==
  LET fresh == market_queue = <<>> /\ facility_queue = <<>>
      mq == IF fresh THEN <<>> ELSE probe.mq
      fq == IF fresh THEN <<>> ELSE probe.fq
  IN  [on |-> TRUE,
       mq |-> IF to = "market" THEN Append(mq, p) ELSE mq,
       fq |-> IF to = "facility" THEN Append(fq, p) ELSE fq,
       mb |-> market_buckets,
       fd |-> [k \in DOMAIN facilities_data |-> heap[facilities_data[k]]]]

\* lines 130-140, as on_message, called while the engine sleeps
OnMessageBetweenCycles(message) ==
  /\ pc \in {"sleep", "backoff"}
  /\ delivered < MaxPush
  /\ delivered' = delivered + 1
  /\ IF message.decodable /\ message.topic = FACILITY_TOPIC
       THEN /\ facility_queue' = Append(facility_queue, Tagged(message))
            /\ dequeues' = Put(dequeues, delivered + 1, 0)
            /\ probe' = Batch("facility", message.payload)
            /\ UNCHANGED market_queue
       ELSE IF message.decodable /\ message.topic = MARKET_TOPIC
         THEN /\ market_queue' = Append(market_queue, Tagged(message))
              /\ dequeues' = Put(dequeues, delivered + 1, 0)
              /\ probe' = Batch("market", message.payload)
              /\ UNCHANGED facility_queue
         ELSE /\ probe' = Batch("none", message.payload)
              /\ UNCHANGED << facility_queue, market_queue, dequeues >>
  /\ UNCHANGED << market_buckets, facilities_data, heap, facilities_metadata,
                  pc, msg, rpc, snap, outcome, lastReceived,
                  exited, active, storedFrom,
                  facility_processed, market_processed, drained >>

DeliverBetweenCycles ==
  ~exited /\ \E message \in Deliveries : OnMessageBetweenCycles(message)

CycleInit ==
  /\ facility_queue = <<>>
  /\ market_queue = <<>>
  /\ market_buckets = EmptyDict
  /\ facilities_data = EmptyDict
  /\ heap = EmptyDict
  /\ facilities_metadata = LoadedMetadata
  /\ pc = "sleep"
  /\ msg = NoMsg
  /\ rpc = [r \in Readers |-> "idle"]
  /\ snap = [r \in Readers |-> EmptyDict]
  /\ delivered = 0
  /\ dequeues = EmptyDict
  /\ outcome = [id |-> 0, kind |-> "none"]
  /\ lastReceived = EmptyDict
  /\ storedFrom = EmptyDict
  /\ active = 0
  /\ exited = FALSE
  /\ facility_processed = 0
  /\ market_processed = 0
  /\ drained = NoneDrained
  /\ probe = [on |-> TRUE, mq |-> <<>>, fq |-> <<>>, mb |-> EmptyDict,
              fd |-> EmptyDict]

CycleNext == DeliverBetweenCycles \/ EngineNext

CycleSpec == CycleInit /\ [][CycleNext]_vars

(***************************************************************************)
(* What the properties below speak of                                      *)
(***************************************************************************)

\* a facility reading of a facility the metadata knows
Joinable(p) ==
  IsFacilityReading(p) /\ p.facility_code \in DOMAIN facilities_metadata

\* the bucket of a reading, as the second its interval starts at
BucketOf(p) == IntervalStart(InstantOf(p.timestamp))

RegionOf(p) == facilities_metadata[p.facility_code].region

Interval == TIME_BUCKET_MINUTES * 60

\* the Market Index holds an entry for region R at the bucket starting at B
HeldAt(mb, B, R) ==
  \E k \in DOMAIN mb : InstantOf(k) = B /\ R \in DOMAIN mb[k]

EntryAt(mb, B, R) ==
  mb[CHOOSE k \in DOMAIN mb : InstantOf(k) = B /\ R \in DOMAIN mb[k]][R]

\* the lookup as the design states it: exact bucket, else one interval back
ReferenceLookup(mb, B, R) ==
  IF HeldAt(mb, B, R) THEN Some(EntryAt(mb, B, R))
  ELSE IF HeldAt(mb, B - Interval, R) THEN Some(EntryAt(mb, B - Interval, R))
  ELSE None

\* the step is the engine running the facility loop body on its msg
FacilityBodyStep == pc = "facility_body" /\ pc' = "facility_loop"

\* the step is the engine running the market loop body on its msg
MarketBodyStep == pc = "market_body" /\ pc' = "market_loop"

\* the step is the facility loop body on a joinable reading
JoinStep == FacilityBodyStep /\ Joinable(msg.payload)

\* C1: every key of facilities_data is a key of the metadata, and the loop
\* body on a message whose facility_code the metadata does not know changes
\* neither the store nor the index and ends at the continue, not in the
\* exception handler.
C1_UnknownFacilityFiltered ==
  [][ /\ DOMAIN facilities_data' \subseteq DOMAIN facilities_metadata'
      /\ (/\ FacilityBodyStep
          /\ ~Raises(msg.payload, "facility_code")
          /\ Hashable(msg.payload.facility_code)
          /\ msg.payload.facility_code \notin DOMAIN facilities_metadata)
         => /\ outcome'.kind = "filtered"
            /\ facilities_data' = facilities_data
            /\ heap' = heap
            /\ market_buckets' = market_buckets ]_vars

\* an unknown facility's reading has just been filtered while F1 has a record
C1_Witness ==
  /\ outcome.kind = "filtered"
  /\ pc = "facility_loop"
  /\ DOMAIN facilities_data = {"F1"}

\* C2: when a joinable reading of region R and bucket B is processed and a
\* market reading for (B, R) has been received before, the record stored
\* has has_market_data, time_bucket B, and the price and demand_energy of
\* the market reading for (B, R) received last.
C2_JoinsLastReceived ==
  [][ (JoinStep /\ << BucketOf(msg.payload), RegionOf(msg.payload) >>
                     \in DOMAIN lastReceived)
      => LET code == msg.payload.facility_code
             last == lastReceived[<< BucketOf(msg.payload),
                                     RegionOf(msg.payload) >>]
         IN  /\ code \in DOMAIN Store'
             /\ Store'[code].has_market_data
             /\ Store'[code].time_bucket.fmt = "iso"
             /\ InstantOf(Store'[code].time_bucket) = BucketOf(msg.payload)
             /\ Store'[code].price = Some(last.price)
             /\ Store'[code].demand_energy = Some(last.demand_energy) ]_vars

\* F1's record carries the market reading of its own bucket, the one that
\* was received after another reading of that bucket
C2_Witness ==
  /\ outcome.kind = "stored"
  /\ "F1" \in DOMAIN Store
  /\ Store["F1"].timestamp = T1058
  /\ Store["F1"].has_market_data
  /\ Store["F1"].market_timestamp = Some(T1056)
  /\ Store["F1"].price = Some(60)
  /\ Store["F1"].demand_energy = Some(800)

\* the bucket keys and regions a lookup may be asked for
ProbeBuckets ==
  { isoformat(FromSeconds(IntervalStart(InstantOf(t)) + n * Interval)) :
      t \in {T1058, T1102}, n \in {0, 1} }

ProbeRegions == {"NSW1", "QLD1", "VIC1"}

\* the result of a lookup as a present or absent reading
Found(market_data) ==
  IF DOMAIN market_data = {} THEN None ELSE Some(market_data)

\* C3: for every bucket B and region R the lookup of lines 204-209 gives the
\* entry at (B, R) if the index holds one, else the entry at (B minus one
\* interval, R) if it holds one, else nothing; so it never gives an entry of
\* an earlier bucket or of another region.
C3_LookupIsReference ==
  \A bucket \in ProbeBuckets, region \in ProbeRegions :
    Found(MarketLookup(market_buckets, bucket, region))
      = ReferenceLookup(market_buckets, InstantOf(bucket), region)

\* the index holds NSW1 two intervals before 11:00 and QLD1 one interval
\* before, and the reading of F1 (NSW1) at 11:02 was joined to neither
C3_Witness ==
  /\ HeldAt(market_buckets, IntervalStart(InstantOf(T1102)) - 2 * Interval, "NSW1")
  /\ ~HeldAt(market_buckets, IntervalStart(InstantOf(T1102)) - Interval, "NSW1")
  /\ ~HeldAt(market_buckets, IntervalStart(InstantOf(T1102)), "NSW1")
  /\ HeldAt(market_buckets, IntervalStart(InstantOf(T1102)) - Interval, "QLD1")
  /\ outcome.kind = "stored"
  /\ Store["F1"].timestamp = T1102
  /\ ~Store["F1"].has_market_data

\* C4: the record a facility body step stores has has_market_data exactly
\* when the index, as it is at that step, holds an entry for the facility's
\* region at the record's bucket or one interval before it; and in every
\* stored record without the flag price, demand_energy and
\* market_timestamp are None.
C4_FlagIffEntryHeld ==
  [][ /\ JoinStep =>
           LET rec == Store'[msg.payload.facility_code]
               B == InstantOf(rec.time_bucket)
               R == RegionOf(msg.payload)
           IN  rec.has_market_data
                 <=> (HeldAt(market_buckets, B, R)
                        \/ HeldAt(market_buckets, B - Interval, R))
      /\ \A k \in DOMAIN Store' :
           ~Store'[k].has_market_data
             => /\ Store'[k].price = None
                /\ Store'[k].demand_energy = None
                /\ Store'[k].market_timestamp = None ]_vars

\* F1's reading was stored without market data while the index holds
\* entries, none of them at its bucket or one interval before
C4_Witness ==
  /\ outcome.kind = "stored"
  /\ DOMAIN market_buckets # {}
  /\ "F1" \in DOMAIN Store
  /\ ~Store["F1"].has_market_data
  /\ Store["F1"].price = None
  /\ Store["F1"].demand_energy = None
  /\ Store["F1"].market_timestamp = None

\* the market fields of a record built from what a lookup found
MarketFields(found) ==
  IF found = None
    THEN [price |-> None, demand_energy |-> None, market_timestamp |-> None,
          has_market_data |-> FALSE]
    ELSE [price |-> Some(found[1].price),
          demand_energy |-> Some(found[1].demand_energy),
          market_timestamp |-> Some(found[1].timestamp),
          has_market_data |-> TRUE]

\* C5: when a joinable reading is processed for a facility that already has
\* a record, every field of the record stored afterwards is given by the
\* reading, the metadata and the index at that step; none comes from the
\* record it replaces.
C5_ReplacedWholesale ==
  [][ (JoinStep /\ msg.payload.facility_code \in DOMAIN facilities_data)
      => LET p == msg.payload
             rec == Store'[p.facility_code]
             meta == facilities_metadata[p.facility_code]
             joined == MarketFields(
                         ReferenceLookup(market_buckets, BucketOf(p), meta.region))
         IN  /\ DOMAIN Store' = DOMAIN Store
             /\ rec.facility_code = p.facility_code
             /\ rec.power = p.power
             /\ rec.emissions = p.emissions
             /\ rec.timestamp = p.timestamp
             /\ InstantOf(rec.time_bucket) = BucketOf(p)
             /\ rec.facility_name = meta.facility_name
             /\ rec.network_region = meta.region
             /\ rec.lat = meta.lat
             /\ rec.lng = meta.lng
             /\ rec.fuel_type = meta.fuel_type
             /\ rec.price = joined.price
             /\ rec.demand_energy = joined.demand_energy
             /\ rec.market_timestamp = joined.market_timestamp
             /\ rec.has_market_data = joined.has_market_data ]_vars

\* a callback still holds F1's earlier record, which had market data, and
\* the record that replaced it in the store has none
C5_Witness ==
  \E r \in Readers :
    /\ rpc[r] = "iterating"
    /\ "F1" \in DOMAIN View(r)
    /\ View(r)["F1"].has_market_data
    /\ View(r)["F1"].price # None
    /\ "F1" \in DOMAIN Store
    /\ ~Store["F1"].has_market_data
    /\ Store["F1"].price = None

\* the market messages still queued that carry a reading for the bucket and
\* region of the facility reading p
WaitingFor(p) ==
  { i \in 1 .. Len(market_queue) :
      /\ IsMarketReading(market_queue[i].payload)
      /\ BucketOf(market_queue[i].payload) = BucketOf(p)
      /\ market_queue[i].payload.region = RegionOf(p) }

\* C6 as claimed: when a joinable reading is processed, no market reading
\* for its bucket and region that was pushed before it in the same cycle
\* interval is still waiting in the market queue.
C6_MarketUpsertedFirst ==
  (pc = "facility_body" /\ Joinable(msg.payload))
    => \A i \in WaitingFor(msg.payload) :
         ~(market_queue[i].id < msg.id /\ market_queue[i].age = msg.age)

\* C6 as amended: while the engine is in the facility drain of a cycle, the
\* only market messages not yet upserted are those pushed after the market
\* drain of that cycle had ended; every market message pushed before that
\* has been dequeued and its loop body has run.
C6_OnlyLateMarketWaits ==
  pc \in FacilityPhase
    => /\ \A i \in 1 .. Len(market_queue) :
            market_queue[i].late /\ market_queue[i].age = 0
       /\ (pc = "facility_body" /\ Joinable(msg.payload)
           /\ << BucketOf(msg.payload), RegionOf(msg.payload) >>
                \in DOMAIN lastReceived)
          => HeldAt(market_buckets, BucketOf(msg.payload),
                    RegionOf(msg.payload))

\* a joinable reading is being processed after a market reading for its
\* bucket and region was upserted, while another one, pushed late, waits
C6_Witness ==
  /\ pc = "facility_body"
  /\ Joinable(msg.payload)
  /\ HeldAt(market_buckets, BucketOf(msg.payload), RegionOf(msg.payload))
  /\ WaitingFor(msg.payload) # {}

\* C7: from the start of the facility drain of a cycle until the next cycle
\* starts its market drain, no step changes market_buckets.
C7_IndexFrozenAfterMarketDrain ==
  [][ (pc \in FacilityPhase \cup {"sleep"})
        => (market_buckets' = market_buckets) ]_vars

\* the facility drain is processing a reading while the index holds entries
\* and a market message waits for the next cycle
C7_Witness ==
  /\ pc = "facility_body"
  /\ Joinable(msg.payload)
  /\ DOMAIN market_buckets # {}
  /\ market_queue # <<>>

QueuedIds ==
  { market_queue[i].id : i \in 1 .. Len(market_queue) } \cup
  { facility_queue[i].id : i \in 1 .. Len(facility_queue) }

\* C8: a message put in a queue is in it once and was never dequeued, or
\* is in no queue and was dequeued once; and a queued message has seen at
\* most one cycle start since its push, in which case the drain of its
\* queue in that cycle has not ended yet.
C8_DequeuedOnceByNextDrain ==
  /\ Cardinality(QueuedIds) = Len(market_queue) + Len(facility_queue)
  /\ \A id \in DOMAIN dequeues :
       dequeues[id] = IF id \in QueuedIds THEN 0 ELSE 1
  /\ \A i \in 1 .. Len(market_queue) :
       /\ market_queue[i].age <= 1
       /\ market_queue[i].age = 1 => pc \in MarketPhase
  /\ \A i \in 1 .. Len(facility_queue) :
       /\ facility_queue[i].age <= 1
       /\ facility_queue[i].age = 1 => pc \in MarketPhase \cup FacilityPhase

\* a market message pushed during the facility drain of a cycle is still
\* queued when the next cycle's market drain runs, another message having
\* been dequeued
C8_Witness ==
  /\ pc = "market_loop"
  /\ \E i \in 1 .. Len(market_queue) :
       market_queue[i].late /\ market_queue[i].age = 1
  /\ \E id \in DOMAIN dequeues : dequeues[id] = 1

\* the facility readings and market readings that can be delivered
FacilityReadings ==
  { d.payload : d \in { e \in Deliveries : e.topic = FACILITY_TOPIC
                                            /\ IsFacilityReading(e.payload) } }

MarketReadings ==
  { d.payload : d \in { e \in Deliveries : e.topic = MARKET_TOPIC
                                            /\ IsMarketReading(e.payload) } }

\* rec is the record of facility k built from one facility reading and at
\* most one market reading
WholeRecord(k, rec) ==
  /\ \E p \in FacilityReadings :
       /\ p.facility_code = k
       /\ rec.facility_code = k
       /\ rec.power = p.power
       /\ rec.emissions = p.emissions
       /\ rec.timestamp = p.timestamp
       /\ InstantOf(rec.time_bucket) = BucketOf(p)
  /\ \/ /\ ~rec.has_market_data
        /\ rec.price = None
        /\ rec.demand_energy = None
        /\ rec.market_timestamp = None
     \/ /\ rec.has_market_data
        /\ \E q \in MarketReadings :
             /\ rec.price = Some(q.price)
             /\ rec.demand_energy = Some(q.demand_energy)
             /\ rec.market_timestamp = Some(q.timestamp)

\* C9: taking a snapshot leaves the store as it was and gives the callback
\* the store's keys and records of that moment; while the callback
\* iterates, no step changes the keys or the records it reads; and every
\* record it reads is the whole record of one facility reading.
C9_SnapshotIndependent ==
  [][ \A r \in Readers :
        /\ (rpc[r] = "idle" /\ rpc'[r] = "iterating")
             => /\ facilities_data' = facilities_data
                /\ Store' = Store
                /\ View(r)' = Store
        /\ (rpc[r] = "iterating" /\ rpc'[r] = "iterating")
             => View(r)' = View(r)
        /\ rpc'[r] = "iterating"
             => \A k \in DOMAIN View(r)' : WholeRecord(k, View(r)'[k]) ]_vars

\* a callback iterates a snapshot whose record of F1 the engine has
\* replaced in the store since
C9_Witness ==
  \E r \in Readers :
    /\ rpc[r] = "iterating"
    /\ "F1" \in DOMAIN View(r)
    /\ "F1" \in DOMAIN Store
    /\ View(r)["F1"].timestamp # Store["F1"].timestamp

\* C10: a loop body that ends in the exception handler leaves
\* market_buckets and facilities_data as they were, its message is in no
\* queue any more, and the engine goes on with the loop.
C10_FailedMessageLeavesNoTrace ==
  [][ ((MarketBodyStep \/ FacilityBodyStep) /\ outcome'.kind = "error")
        => /\ market_buckets' = market_buckets
           /\ facilities_data' = facilities_data
           /\ heap' = heap
           /\ msg.id \notin QueuedIds'
           /\ market_queue' = market_queue
           /\ facility_queue' = facility_queue ]_vars

\* the reading a market message carries
MarketReadingOf(p) ==
  [price |-> p.price, demand_energy |-> p.demand_energy,
   timestamp |-> p.timestamp]

\* C11: the market loop body on a message that carries a market reading
\* leaves the index holding that reading at the message's bucket and region,
\* whatever it held there before and whatever the source timestamps; so
\* between loop bodies each (bucket, region) holds the reading received last.
C11_LastReceivedHeld ==
  [][ (MarketBodyStep /\ IsMarketReading(msg.payload))
      => LET p == msg.payload
         IN  /\ outcome'.kind = "upserted"
             /\ HeldAt(market_buckets', BucketOf(p), p.region)
             /\ EntryAt(market_buckets', BucketOf(p), p.region)
                  = MarketReadingOf(p)
             /\ \A k \in DOMAIN lastReceived :
                  /\ HeldAt(market_buckets', k[1], k[2])
                  /\ EntryAt(market_buckets', k[1], k[2]) = lastReceived[k] ]_vars

\* F1 was joined to the 10:57 reading of its bucket, and the index now
\* holds the 10:56 reading of that bucket, received after it
C11_Witness ==
  /\ outcome.kind = "upserted"
  /\ "F1" \in DOMAIN Store
  /\ Store["F1"].market_timestamp = Some(T1057)
  /\ HeldAt(market_buckets, IntervalStart(InstantOf(T1057)), "NSW1")
  /\ EntryAt(market_buckets, IntervalStart(InstantOf(T1057)), "NSW1").timestamp
       = T1056

\* C12: the facility queue hands its messages out in the order they were
\* pushed, and each joinable reading processed replaces the record of its
\* facility with its own fields; so the record stored for a facility is
\* always of the reading pushed last among those processed for it, whatever
\* the source timestamps of the readings.
C12_PushOrderWins ==
  [][ /\ \A i, j \in 1 .. Len(facility_queue) :
           i < j => facility_queue[i].id < facility_queue[j].id
      /\ JoinStep
           => LET code == msg.payload.facility_code
              IN  /\ code \in DOMAIN storedFrom => storedFrom[code] < msg.id
                  /\ \A i \in 1 .. Len(facility_queue) :
                       msg.id < facility_queue[i].id
                  /\ storedFrom'[code] = msg.id
                  /\ Store'[code].power = msg.payload.power
                  /\ Store'[code].emissions = msg.payload.emissions
                  /\ Store'[code].timestamp = msg.payload.timestamp ]_vars

\* the store holds F1's 10:58 reading, pushed and processed after the 11:02
\* reading a callback still holds
C12_Witness ==
  \E r \in Readers :
    /\ rpc[r] = "iterating"
    /\ "F1" \in DOMAIN View(r)
    /\ View(r)["F1"].timestamp = T1102
    /\ "F1" \in DOMAIN Store
    /\ Store["F1"].timestamp = T1058
    /\ storedFrom["F1"] > 1

\* the probe has been bucketized
Bucketized == probe.on /\ probe.done

\* C13: for all timestamps t1 <= t2 the bucket of t1 is not after the
\* bucket of t2, and no bucket is after its timestamp, for every width
\* probed and across the hour and the day boundary.
C13_BucketMonotonic ==
  Bucketized
    => /\ InstantOf(probe.b1) <= InstantOf(probe.t1)
       /\ InstantOf(probe.b2) <= InstantOf(probe.t2)
       /\ InstantOf(probe.t1) <= InstantOf(probe.t2)
            => InstantOf(probe.b1) <= InstantOf(probe.b2)

\* 23:59:59 of day 0 and 00:00:00 of day 1, a second apart, lie in buckets
\* of the default width that start five minutes apart
C13_Witness ==
  /\ Bucketized
  /\ probe.W = TIME_BUCKET_MINUTES
  /\ probe.t1 = IsoString(0, 23, 59, 59)
  /\ probe.t2 = IsoString(1, 0, 0, 0)
  /\ probe.b1 = IsoString(0, 23, 55, 0)
  /\ probe.b2 = IsoString(1, 0, 0, 0)

\* C14: for every width probed, the bucket of t starts at or before t and
\* less than one width before it, bucketizing a bucket gives the bucket,
\* the starts of two different buckets lie a whole number of widths apart,
\* and the one-back key of a bucket is a bucket start, the start of the
\* bucket that the second before the bucket lies in.
C14_FixedWidthBuckets ==
  Bucketized
    => LET width == probe.W * 60
           b1 == InstantOf(probe.b1)
           b2 == InstantOf(probe.b2)
       IN  /\ b1 <= InstantOf(probe.t1)
           /\ InstantOf(probe.t1) < b1 + width
           /\ probe.again = probe.b1
           /\ b1 <= b2 => (b2 - b1) % width = 0
           /\ b1 >= width
                => /\ probe.prev_again = probe.prev
                   /\ probe.before = probe.prev

\* C15: a market message whose only defect is a timestamp that cannot be
\* parsed does not end its loop body in the exception handler: it is
\* bucketed, and the index holds its reading afterwards.
C15_UnparsableStillBucketed ==
  [][ (/\ MarketBodyStep
       /\ msg.payload.obj
       /\ MarketKeys \subseteq msg.payload.has
       /\ Hashable(msg.payload.region)
       /\ ~to_datetime(msg.payload.timestamp).ok)
      => /\ outcome'.kind = "upserted"
         /\ \E bucket \in DOMAIN market_buckets' :
              /\ msg.payload.region \in DOMAIN market_buckets'[bucket]
              /\ market_buckets'[bucket][msg.payload.region]
                   = MarketReadingOf(msg.payload) ]_vars

\* the engine thread is between two calls of integrate_data_sources
BetweenCycles == pc \in {"sleep", "backoff"}

\* C16: at most one execution of integrate_data_sources is in progress, one
\* is in progress exactly while the engine is in its loops, and a call is
\* made only when none is in progress.
C16_OneCycleAtATime ==
  [][ /\ active \in {0, 1}
      /\ active' \in {0, 1}
      /\ active = 0 <=> BetweenCycles
      /\ active' > active => (active = 0 /\ BetweenCycles) ]_vars

\* a cycle is in progress after an earlier one returned: it is processing
\* a market message that was pushed during the earlier cycle's facility
\* drain
C16_Witness ==
  /\ active = 1
  /\ pc = "market_body"
  /\ msg.late

\* C17: as long as the process runs, the engine starts a cycle again and
\* again, whatever was delivered and however its cycles ended.
C17_EngineCyclesForever == []<>(exited \/ pc = "market_loop")

\* a malformed message ended in the exception handler, the cycle ended with
\* an exception, and a message waits for the cycle to come
C17_Witness ==
  /\ pc = "backoff"
  /\ outcome.kind = "error"
  /\ market_queue # <<>>

\* C18: when the engine has stopped it is between two cycles: it is not in
\* either loop and it holds no message that it dequeued and did not apply.
C18_StopsOnlyBetweenCycles ==
  exited => (BetweenCycles /\ active = 0 /\ msg = NoMsg)

\* the topic and payload pairs that were decoded from a delivery
Decoded == { << d.topic, d.payload >> : d \in { e \in Deliveries : e.decodable } }

\* q2 is q1 with one message more at its end, the one delivered last, which
\* came on the topic
Pushed(q1, q2, topic) ==
  /\ Len(q2) = Len(q1) + 1
  /\ SubSeq(q2, 1, Len(q1)) = q1
  /\ q2[Len(q2)].id = delivered'
  /\ q2[Len(q2)].topic = topic

\* C20: while the process runs, on_message can be called with every
\* delivery, whatever the queues hold and wherever the engine is; a call
\* appends one message to the queue of its topic or changes no queue, and
\* changes nothing else; so the facility queue holds decoded payloads of
\* the facility topic only, the market queue those of the market topic
\* only, and no queue holds a payload that was not decoded or came on
\* another topic.
C20_PushTouchesOwnQueue ==
  [][ /\ (~exited /\ delivered < MaxPush)
           => \A message \in Deliveries : ENABLED on_message(message)
      /\ \A i \in 1 .. Len(facility_queue') :
           /\ facility_queue'[i].topic = FACILITY_TOPIC
           /\ << FACILITY_TOPIC, facility_queue'[i].payload >> \in Decoded
      /\ \A i \in 1 .. Len(market_queue') :
           /\ market_queue'[i].topic = MARKET_TOPIC
           /\ << MARKET_TOPIC, market_queue'[i].payload >> \in Decoded
      /\ delivered' # delivered
           => /\ delivered' = delivered + 1
              /\ UNCHANGED << market_buckets, facilities_data, heap,
                              facilities_metadata, pc, msg, rpc, snap, outcome >>
              /\ \/ UNCHANGED << facility_queue, market_queue >>
                 \/ /\ Pushed(facility_queue, facility_queue', FACILITY_TOPIC)
                    /\ UNCHANGED market_queue
                 \/ /\ Pushed(market_queue, market_queue', MARKET_TOPIC)
                    /\ UNCHANGED facility_queue ]_vars

\* three deliveries reached on_message while the engine was inside a cycle:
\* one left both queues as they were, the others are in the two queues
C20_Witness ==
  /\ delivered = 3
  /\ Len(facility_queue) = 1
  /\ Len(market_queue) = 1
  /\ Cardinality(DOMAIN dequeues) = 2
  /\ pc = "facility_loop"

\* C21: the record of a facility changes, and a facility gets a record,
\* only in a facility loop body on a joinable reading of that facility; no
\* market upsert, no reading of another facility and no failed or filtered
\* message changes it.
C21_RecordChangesOnlyOnOwnReading ==
  [][ \A k \in DOMAIN Store' :
        (k \in DOMAIN Store /\ Store'[k] = Store[k])
          \/ (JoinStep /\ msg.payload.facility_code = k) ]_vars

\* F1's record has no market data although the index now holds a reading
\* for its bucket and region, upserted after the record was stored, and
\* F2 has a record as well
C21_Witness ==
  /\ outcome.kind = "upserted"
  /\ DOMAIN Store = {"F1", "F2"}
  /\ ~Store["F1"].has_market_data
  /\ HeldAt(market_buckets, InstantOf(Store["F1"].time_bucket), "NSW1")

\* the (bucket, region) keys of a Market Index
IndexKeys(mb) == UNION { { << b, r >> : r \in DOMAIN mb[b] } : b \in DOMAIN mb }

\* C22: no step removes a bucket or a (bucket, region) key from the Market
\* Index, nor a facility code from the store.
C22_NothingDeleted ==
  [][ /\ DOMAIN market_buckets \subseteq DOMAIN market_buckets'
      /\ IndexKeys(market_buckets) \subseteq IndexKeys(market_buckets')
      /\ DOMAIN facilities_data \subseteq DOMAIN facilities_data' ]_vars

\* the index holds a reading in each of two buckets and the store a record
C22_Witness ==
  /\ Cardinality(DOMAIN market_buckets) = 2
  /\ Cardinality(IndexKeys(market_buckets)) = 2
  /\ DOMAIN facilities_data = {"F1"}

\* the fuel probe has been normalized
Normalized == probe.on /\ probe.done

\* a label lower-cased and with all its whitespace removed
LookupKey(cs) == SelectSeq(lower(cs), LAMBDA c : c \notin Whitespace)

\* the canonical names and "Other"
FuelVocabulary ==
  { Str(FUEL_CANONICALS[k]) : k \in DOMAIN FUEL_CANONICALS }
    \cup { Str(<< "O", "t", "h", "e", "r" >>) }

\* C23: normalize_fuel gives the canonical name of every label that is in
\* the table once lower-cased and stripped of whitespace, gives "Other" for
\* every other label and for None, and its result is always in the
\* canonical vocabulary.
C23_FuelNormalized ==
  Normalized =>
    /\ probe.out \in FuelVocabulary
    /\ probe.val = None => probe.out = Str(<< "O", "t", "h", "e", "r" >>)
    /\ probe.val # None =>
         IF LookupKey(probe.val.chars) \in DOMAIN FUEL_CANONICALS
           THEN probe.out = Str(FUEL_CANONICALS[LookupKey(probe.val.chars)])
           ELSE probe.out = Str(<< "O", "t", "h", "e", "r" >>)

\* C24: the fuel_type of every stored record is normalize_fuel applied to
\* the fuel label the metadata has for the facility.
C24_FuelCategoryNormalized ==
  \A k \in DOMAIN Store :
    Store[k].fuel_type = normalize_fuel(facilities_metadata[k].fuel_type)

\* C25: the metadata stays as it was loaded, and every record stored under
\* a key carries that key as its facility_code, the name, region, latitude
\* and longitude the metadata has for it, and as time_bucket the bucket of
\* its own timestamp.
C25_RecordsMirrorMetadata ==
  /\ facilities_metadata = LoadedMetadata
  /\ \A k \in DOMAIN Store :
       /\ Store[k].facility_code = k
       /\ k \in DOMAIN facilities_metadata
       /\ Store[k].facility_name = facilities_metadata[k].facility_name
       /\ Store[k].network_region = facilities_metadata[k].region
       /\ Store[k].lat = facilities_metadata[k].lat
       /\ Store[k].lng = facilities_metadata[k].lng
       /\ Store[k].time_bucket = round_to_bucket(Store[k].timestamp).val

\* both facilities have a record, F1's from its 11:02 reading, and the
\* reader holds a snapshot
C25_Witness ==
  /\ DOMAIN Store = {"F1", "F2"}
  /\ Store["F1"].timestamp = T1102
  /\ Store["F2"].time_bucket # Store["F2"].timestamp
  /\ rpc["update_map"] # "idle"

\* C26: each drain loop of a cycle ends while the producer keeps pushing:
\* the engine in the market loop reaches the facility loop, and in the
\* facility loop reaches the end of the cycle.
C26_DrainsTerminate ==
  /\ (pc \in MarketPhase) ~> (pc \in FacilityPhase)
  /\ (pc \in FacilityPhase) ~> (pc \in {"sleep", "backoff"})

\* the market reading a record was joined with
JoinedReading(rec) ==
  [price |-> rec.price[1], demand_energy |-> rec.demand_energy[1],
   timestamp |-> rec.market_timestamp[1]]

\* C27: for every record with has_market_data, the bucket of its
\* market_timestamp is its time_bucket or the bucket one interval before,
\* and the market reading it carries is a reading of the facility's region.
C27_JoinAtMostOneBack ==
  \A k \in DOMAIN Store :
    Store[k].has_market_data =>
      /\ InstantOf(round_to_bucket(Store[k].market_timestamp[1]).val)
           \in { InstantOf(Store[k].time_bucket),
                 InstantOf(Store[k].time_bucket) - Interval }
      /\ \E p \in MarketReadings :
           MarketReadingOf(p) = JoinedReading(Store[k])
      /\ \A p \in MarketReadings :
           MarketReadingOf(p) = JoinedReading(Store[k])
             => p.region = Store[k].network_region

\* F1's record of bucket 11:00 carries the reading of 10:57, one interval
\* back, and F2 has a record without market data
C27_Witness ==
  /\ DOMAIN Store = {"F1", "F2"}
  /\ Store["F1"].timestamp = T1102
  /\ Store["F1"].has_market_data
  /\ Store["F1"].market_timestamp = Some(T1057)
  /\ ~Store["F2"].has_market_data

\* C28: the facility loop body leaves market_buckets as it was, whatever
\* its message and however it ends; when the lookup of a joinable reading
\* finds nothing, neither the reading's bucket nor the bucket one back
\* becomes a key of market_buckets.
C28_LookupReadOnly ==
  [][ FacilityBodyStep =>
        /\ market_buckets' = market_buckets
        /\ (Joinable(msg.payload)
              /\ ReferenceLookup(market_buckets, BucketOf(msg.payload),
                                 RegionOf(msg.payload)) = None)
             => \A k \in DOMAIN market_buckets' :
                  InstantOf(k) \in { BucketOf(msg.payload),
                                     BucketOf(msg.payload) - Interval }
                    => k \in DOMAIN market_buckets ]_vars

\* F1's reading of 11:02 was stored without market data while the index
\* held NSW1 at 10:50 only, and it holds that entry and no other
C28_Witness ==
  /\ outcome.kind = "stored"
  /\ pc = "facility_loop"
  /\ DOMAIN Store = {"F1"}
  /\ storedFrom["F1"] = outcome.id
  /\ Store["F1"].timestamp = T1102
  /\ ~Store["F1"].has_market_data
  /\ IndexKeys(market_buckets) = { << round_to_bucket(T1052).val, "NSW1" >> }
  /\ DOMAIN market_buckets = { round_to_bucket(T1052).val }

RECURSIVE FoldMarket(_, _)
FoldMarket(mb, ms) ==
  IF ms = <<>> THEN mb
  ELSE FoldMarket(MarketUpsert(mb, Head(ms)).mb, Tail(ms))

\* the store after the facility readings fs were joined against mb and
\* stored in their order
RECURSIVE FoldFacility(_, _, _)
FoldFacility(store, mb, fs) ==
  IF fs = <<>> THEN store
  ELSE LET r == Integrate(Head(fs), facilities_metadata, mb)
       IN  FoldFacility(IF r.kind = "stored"
                          THEN Put(store, r.code, r.rec) ELSE store,
                        mb, Tail(fs))

\* messages were pushed while the engine slept, and a cycle has drained them
CycleDone ==
  /\ pc \in {"sleep", "backoff"}
  /\ market_queue = <<>>
  /\ facility_queue = <<>>
  /\ Len(probe.mq) + Len(probe.fq) > 0

\* C30: after a cycle whose messages were all pushed before it started,
\* the index is what applying the market messages in their queue order to
\* the index before gives, and the store what joining the facility messages
\* in their queue order against that index gives, however the pushes to the
\* two queues were interleaved.
C30_CycleIsMarketThenFacility ==
  CycleDone =>
    /\ market_buckets = FoldMarket(probe.mb, probe.mq)
    /\ Store = FoldFacility(probe.fd, market_buckets, probe.fq)

\* F1's reading was pushed before the market reading of its bucket and
\* region, and the cycle joined the two
C30_Witness ==
  /\ CycleDone
  /\ Len(probe.mq) = 2
  /\ Len(probe.fq) = 1
  /\ storedFrom = Put(EmptyDict, "F1", 1)
  /\ Store["F1"].has_market_data
  /\ Store["F1"].market_timestamp = Some(T1056)

\* a sequence of messages without the immediate repetitions
RECURSIVE Dedup(_)
Dedup(ms) ==
  IF Len(ms) < 2 THEN ms
  ELSE IF ms[1] = ms[2] THEN Dedup(Tail(ms))
  ELSE << ms[1] >> \o Dedup(Tail(ms))

\* C31: a cycle that processed the same market message twice in a row
\* leaves the index as if it had processed it once, and one that processed
\* the same facility message twice in a row, against the index the market
\* drain left, leaves the store as if it had processed it once.
C31_DuplicateHarmless ==
  CycleDone =>
    /\ market_buckets = FoldMarket(probe.mb, Dedup(probe.mq))
    /\ Store = FoldFacility(probe.fd, market_buckets, Dedup(probe.fq))

\* a cycle processed the same market reading twice, the index holds one
\* entry
C31_Witness ==
  /\ CycleDone
  /\ probe.mq = << MarketPayload("NSW1", T1057, 55, 950),
                   MarketPayload("NSW1", T1057, 55, 950) >>
  /\ outcome = [id |-> 2, kind |-> "upserted"]
  /\ Cardinality(IndexKeys(market_buckets)) = 1

\* the step is integrate_data_sources returning its pair of counters
ReturnStep == pc = "facility_loop" /\ pc' = "sleep"

\* C32: the pair integrate_data_sources returns is the number of facility
\* messages of this cycle that ended in a stored record and the number of
\* market messages of this cycle that were upserted; a message that was
\* filtered or failed is in neither, so neither exceeds the number of
\* messages dequeued from its queue.
C32_CountersCountSuccesses ==
  [][ ReturnStep =>
        /\ facility_processed = drained["stored"]
        /\ market_processed = drained["upserted"]
        /\ facility_processed
             <= drained["stored"] + drained["filtered"] + drained["error"]
        /\ market_processed
             <= drained["upserted"] + drained["market_error"] ]_vars

\* the cycle is about to return (1, 1) after an upsert, a stored record and
\* a reading of an unknown facility
C32_Witness ==
  /\ pc = "facility_loop"
  /\ facility_queue = <<>>
  /\ facility_processed = 1
  /\ market_processed = 1
  /\ drained["filtered"] = 1

\* C33: the first call of start_mqtt_once starts the listener thread and
\* every later call starts none, so no more than one is ever started.
C33_ListenerStartedOnce ==
  [][ probe'.calls > probe.calls =>
        /\ probe'.threads = 1
        /\ probe.calls > 0 => probe'.threads = probe.threads ]_vars

\* start_mqtt_once was called more than once and the listener received a
\* CONNACK
C33_Witness ==
  /\ probe.on
  /\ probe.calls > 1
  /\ probe.threads = 1
  /\ probe.connects > 0

\* C34: in every variant, after on_connect with reason code 0
\* mqtt_connected is true and the call subscribed to every topic the
\* variant defines; after on_connect with another reason code
\* mqtt_connected is false and the call subscribed to nothing.
C34_ConnectSubscribes ==
  probe.connects > 0 =>
    IF probe.reason_code = 0
      THEN /\ probe.mqtt_connected
           /\ probe.subscribed = TopicsDefined(probe.variant)
      ELSE /\ ~probe.mqtt_connected
           /\ probe.subscribed = {}

\* the positions of the messages of type t that were pending at the call
PendingOf(t) ==
  { i \in 1 .. Len(probe.pending) : probe.pending[i].type = t }

\* the last of a non-empty set of positions
Last(S) == CHOOSE i \in S : \A j \in S : j <= i

\* the pending facility_data messages whose key records can hold
Applied ==
  { i \in PendingOf("facility_data") :
      probe.pending[i].facility_code = None
        \/ Hashable(probe.pending[i].facility_code[1]) }

\* C35: when process_queue has returned, the queue is empty,
\* mqtt_connected is the value of the last connection message that was
\* pending, records holds under each code the data of the last
\* facility_data message for it, mqtt_error is the last error message, the
\* value returned is the number of facility_data messages applied, and the
\* messages after one that failed were processed.
C35_ProcessQueueAppliesAll ==
  (probe.at = "returned") =>
    /\ probe.message_queue = <<>>
    /\ probe.mqtt_connected =
         IF PendingOf("connection") = {} THEN probe.mqtt_connected0
         ELSE probe.pending[Last(PendingOf("connection"))].connected
    /\ probe.mqtt_error =
         IF PendingOf("error") = {} THEN probe.mqtt_error0
         ELSE Some(probe.pending[Last(PendingOf("error"))].message)
    /\ DOMAIN probe.records =
         DOMAIN probe.records0
           \cup { probe.pending[i].facility_code : i \in Applied }
    /\ \A code \in DOMAIN probe.records :
         LET of == { i \in Applied : probe.pending[i].facility_code = code }
         IN  probe.records[code] =
               IF of = {} THEN probe.records0[code]
               ELSE probe.pending[Last(of)].data
    /\ probe.processed = Cardinality(Applied)

\* process_queue returned 1 after a message whose key is not hashable, a
\* facility_data message for F1, which replaced F1's earlier data, and a
\* connection message
C35_Witness ==
  /\ probe.on
  /\ probe.at = "returned"
  /\ Len(probe.pending) = 3
  /\ probe.pending[1].type = "facility_data"
  /\ probe.pending[1].facility_code = Some(ListValue)
  /\ probe.pending[2].type = "facility_data"
  /\ probe.pending[3].type = "connection"
  /\ probe.processed = 1
  /\ probe.mqtt_connected
  /\ Some("F1") \in DOMAIN probe.records0
  /\ probe.records[Some("F1")] # probe.records0[Some("F1")]

\* the positions of the snapshot's records of region g
OfRegion(g) ==
  { i \in 1 .. Len(probe.values) : probe.values[i].network_region = Some(g) }

\* the instant of a record's timestamp, the earliest one when the string
\* cannot be parsed
StampOf(i) ==
  IF probe.values[i].timestamp.iso THEN probe.values[i].timestamp.at ELSE 0

\* the first of the records of region g with the greatest timestamp
Latest(g) ==
  CHOOSE i \in OfRegion(g) :
    /\ \A j \in OfRegion(g) : StampOf(j) <= StampOf(i)
    /\ \A j \in OfRegion(g) : StampOf(j) = StampOf(i) => i <= j

\* C36: for every snapshot update_map's loop completes, and for each
\* region with a record it gives the price and the demand of the first of
\* the region's records with the greatest timestamp, 0.0 for one that is
\* missing, a timestamp that cannot be parsed being the earliest.
C36_LatestPerRegion ==
  (probe.on /\ probe.done) =>
    /\ probe.latest_by_region # MapRaised
    /\ DOMAIN probe.latest_by_region
         = { g \in {"NSW1", "QLD1"} : OfRegion(g) # {} }
    /\ \A g \in DOMAIN probe.latest_by_region :
         /\ probe.latest_by_region[g].price
              = OrZero(probe.values[Latest(g)].price)
         /\ probe.latest_by_region[g].demand
              = OrZero(probe.values[Latest(g)].demand_energy)

\* the positions of the log where a row was published
RowsLogged == { i \in 1 .. Len(probe.log) : probe.log[i].what = "row" }

\* C37: in each pass the rows are published by ascending date and, within
\* a date, by ascending time, and between the last row of a date and the
\* first row of the next date of the pass the publisher paused for 60
\* seconds.
C37_DaysInOrderWithPause ==
  \A i, j \in RowsLogged :
    (i < j /\ probe.log[i].pass = probe.log[j].pass) =>
      LET a == probe.log[i].row
          b == probe.log[j].row
      IN  /\ a[1] <= b[1]
          /\ a[1] = b[1] => a[2] < b[2]
          /\ a[1] < b[1] =>
               \E k \in i + 1 .. j - 1 : probe.log[k].what = "sleep60"

====
